---- MODULE Spec2Model ----
(***************************************************************************)
(* Blast pattern store of the X-Platform mission core                      *)
(* (src/amiga_platform/core/blast_pattern.py): the per-hole records, the   *)
(* mark_* operations, the queries, and save_state / load_state through the *)
(* JSON state file.                                                        *)
(***************************************************************************)
EXTENDS Integers, Sequences, FiniteSets, TLC

(***************************************************************************)
(* Bounds of the model.                                                    *)
(***************************************************************************)
\* number of holes handed to the BlastPattern constructor
NumHoles == 2
\* number of mark_* calls in one behaviour
MaxOps == 3
\* largest last_row_waypoint_index drawn for the echelon check
MaxLastRow == 4
\* largest hole index asked of is_echelon_end
MaxIndex == 23

\* number of execute_track calls in one behaviour
MaxCalls == 2
\* capacity of the follower's state subscription stream
MaxStream == 1

\* largest max_attempts handed to imu_wiggle
MaxAttempts == 2

\* number of plan_row_end_maneuver calls made on one planner
MaxPlanCalls == 6

\* last_row_waypoint_index of the store runs (the value the tests construct with)
TestLastRow == 1

(***************************************************************************)
(* Python values.  Optional[T]: None is the empty tuple, a value v is <<v>>.*)
(***************************************************************************)
None == << >>
Some(v) == << v >>

\* HoleStatus members (names) and their .value strings
HoleStatus == {"PENDING", "IN_PROGRESS", "COMPLETED", "FAILED", "SKIPPED"}

HoleStatusValue(s) ==
  CASE s = "PENDING" -> "pending"
    [] s = "IN_PROGRESS" -> "in_progress"
    [] s = "COMPLETED" -> "completed"
    [] s = "FAILED" -> "failed"
    [] s = "SKIPPED" -> "skipped"

\* HoleStatus(value): lookup of the member by its value
HoleStatusOfValue(v) == CHOOSE s \in HoleStatus : HoleStatusValue(s) = v

\* the empty dict
EmptyDict == [k \in {} |-> 0]
\* measurement dicts a module hands to mark_completed (Dict[str, Any])
DepthDict == [k \in {"depth"} |-> 15]
SequenceDict == [k \in {"sequence"} |-> "complete"]
MeasurementDicts == {EmptyDict, DepthDict, SequenceDict}
\* the measurements argument: absent (None) or a dict
MeasurementArgs == {None} \cup {Some(m) : m \in MeasurementDicts}
\* bool(measurements): None and the empty dict are falsy
Truthy(arg) == arg # None /\ DOMAIN arg[1] # {}

\* error / reason texts
ErrorTexts == {"Vision detection timeout", "Max retries exceeded"}
\* datetime.now().isoformat()
Instants == {"2026-01-01T08:00:00", "2026-01-01T08:05:00"}
\* mission_name arguments ("mission" is the constructor's default)
MissionNames == {"mission", "persistence_test"}

\* hole indices of the pattern, and the index arguments callers may pass
HoleIndices == 0 .. (NumHoles - 1)
IndexArgs == -1 .. NumHoles

(***************************************************************************)
(* Pose3F64 of hole i: translation and rotation (yaw, 0 = identity).       *)
(***************************************************************************)
HolePose(i) ==
  [frame_a |-> "world", frame_b |-> "hole",
   translation |-> << i, 0, 0 >>, rotation |-> i + 1]

\* HoleRecord(index=i, position=pose) with the dataclass defaults
NewHoleRecord(i, pose) ==
  [index |-> i, position |-> pose, status |-> "PENDING", attempts |-> 0,
   last_error |-> None, measurements |-> EmptyDict,
   timestamp_completed |-> None]

VARIABLES
  mission_name,        \* BlastPattern.mission_name
  last_row_index,      \* BlastPattern.last_row_index
  holes,               \* BlastPattern.holes: sequence of HoleRecord, hole i at i+1
  current_hole_index,  \* BlastPattern.current_hole_index: Optional[int]
  state_file,          \* content of the JSON state file, None before a save
  phase,               \* "run": pattern live; "saved": saved, process stopped;
                       \* "loaded": pattern is the instance load_state returned
  ret,                 \* the last query call and its return value
  ever_terminal,       \* history: indices that have been COMPLETED/FAILED/SKIPPED
  nops,                \* number of mark_* calls made
  \* XStemNavigator (src/main.py) and its NavigationStateMachine
  o_pc,                \* position of XStemNavigator.run
  current_state,       \* NavigationStateMachine.current_state
  previous_state,      \* NavigationStateMachine.previous_state
  shutdown_requested,  \* XStemNavigator.shutdown_requested
  wp_index,            \* run's local wp_index
  segment_idx,         \* _execute_row_end_maneuver's loop variable
  \* PathPlanner (src/navigation/path_planner.py)
  row_end_segment_index, \* PathPlanner.row_end_segment_index
  row_end_returns,     \* history: what each plan_row_end_maneuver call returned
  maneuvers,           \* history: per row-end maneuver of run(), the segments
                       \* it executed and whether each execution succeeded
  approach,            \* the last plan_approach_segment call: arguments, pose, track
  \* NavigationManager (src/amiga_platform/navigation/navigation_manager.py)
  track_complete,      \* asyncio.Event track_complete: is it set
  track_failed,        \* asyncio.Event track_failed: is it set
  current_status,      \* NavigationManager.current_status
  lock,                \* holder of NavigationManager._lock, None when free
  e_pc,                \* per calling task: its position in execute_track / cancel_track
  e_done,              \* per calling task: execute_track's local done
  e_result,            \* per calling task: return value of its last execute_track
  \* the track follower service and its state subscription
  stream,              \* published TrackFollowerState messages not yet received
  f_status,            \* the follower's track status
  f_track,             \* the track the follower holds (number of the call that set it)
  \* history of the executor
  ncalls,              \* number of execute_track calls made
  e_track,             \* per calling task: number of its execute_track call
  first_latch,         \* the latch set first since the last clearing
  complete_src,        \* track of the status that set track_complete
  failed_src,          \* track of the status that set track_failed
  wait_cause,          \* per calling task: what ended its asyncio.wait
  cancel_sent,         \* per calling task: its call has sent /cancel
  \* imu_wiggle and check_filter_convergence (src/hardware/filter_utils.py)
  w_pc,                \* position of imu_wiggle
  w_args,              \* imu_wiggle's arguments
  attempt,             \* imu_wiggle's local attempt
  direction,           \* position in the directions list (1..4)
  w_result,            \* imu_wiggle's return value
  c_reply,             \* what the last /get_state request of a check ended with
  c_result,            \* return value of the last check_filter_convergence
  \* history of the wiggle
  last_twist,          \* the last /twist sent: "none", "nonzero" or "zero"
  rechecks,            \* results of the convergence re-checks, one per cycle
  checks,              \* number of check_filter_convergence calls
  get_state_requests,  \* number of /get_state requests sent by them
  \* XStemNavigator.setup and shutdown (src/main.py), the loaded module
  setup_pc,            \* position of XStemNavigator.setup
  module_ready,        \* what module.verify_ready() returned, None before
  converged_seen,      \* history: setup saw the filter converged
  module_shutdowns,    \* number of module.shutdown() calls
  monitor_running,     \* NavigationManager.monitor_task is started and not done
  sm_last,             \* history: the last call on the state machine made directly
  \* two executions of run() fed the same events
  runA,                \* the first execution: run()'s position and what it works on
  runB,                \* the second execution
  event                \* the event both were fed last

storeVars == << mission_name, last_row_index, holes, current_hole_index,
                state_file, phase, ret, ever_terminal, nops >>

orchVars == << o_pc, current_state, previous_state, shutdown_requested,
               wp_index, segment_idx >>

plannerVars == << row_end_segment_index, row_end_returns, maneuvers, approach >>

execVars == << track_complete, track_failed, current_status, lock, e_pc,
               e_done, e_result, stream, f_status, f_track, ncalls, e_track,
               first_latch, complete_src, failed_src, wait_cause, cancel_sent >>

wiggleVars == << w_pc, w_args, attempt, direction, w_result, c_reply, c_result,
                 last_twist, rechecks, checks, get_state_requests >>

twinVars == << runA, runB, event >>

setupVars == << setup_pc, module_ready, converged_seen, module_shutdowns,
                monitor_running, sm_last, twinVars >>

\* the variables the executor's steps leave alone
nonExecVars == << storeVars, orchVars, plannerVars, wiggleVars, setupVars >>

\* the variables the wiggle's steps leave alone
nonWiggleVars == << storeVars, orchVars, plannerVars, execVars, setupVars >>

\* the variables the planner's steps leave alone
nonPlannerVars == << storeVars, orchVars, execVars, wiggleVars, setupVars >>

\* the variables the steps of run() leave alone
envVars == << execVars, wiggleVars, setupVars >>

\* the variables outside the pattern store
otherVars == << orchVars, plannerVars, envVars >>

vars == << storeVars, otherVars >>

patternVars == << mission_name, last_row_index, holes, current_hole_index >>

NoCall == [op |-> "none"]

TerminalStatuses == {"COMPLETED", "FAILED", "SKIPPED"}

\* BlastPattern.__init__
ConstructHoles(n) == [k \in 1 .. n |-> NewHoleRecord(k - 1, HolePose(k - 1))]

\* NavState members
NavState ==
  {"IDLE", "INITIALIZING", "PLANNING", "PLOTTING_PATH", "FOLLOWING_PATH",
   "STOPPING", "DETECTING", "CONVERTING", "MODULE_PHASE", "UPDATING_PATTERN",
   "ECHELON_TURN", "RETURNING", "SEGMENT_TIMEOUT", "RECOVERING",
   "COMPLETE", "FAILED", "EMERGENCY_STOP"}

\* XStemNavigator.__init__ and NavigationStateMachine.__init__
OrchInit ==
  /\ o_pc = "run"
  /\ current_state = "IDLE"
  /\ previous_state = "IDLE"
  /\ shutdown_requested = FALSE
  /\ wp_index = None
  /\ segment_idx = None

\* PathPlanner.__init__
PlannerInit ==
  /\ row_end_segment_index = 1
  /\ row_end_returns = << >>
  /\ maneuvers = << >>
  /\ approach = None

\* the tasks that call the NavigationManager
Callers == {1, 2}

\* NavigationManager.__init__, an idle follower, nothing published
ExecInit ==
  /\ track_complete = FALSE
  /\ track_failed = FALSE
  /\ current_status = None
  /\ lock = None
  /\ e_pc = [c \in Callers |-> "idle"]
  /\ e_done = [c \in Callers |-> {}]
  /\ e_result = [c \in Callers |-> None]
  /\ stream = << >>
  /\ f_status = "TRACK_UNSPECIFIED"
  /\ f_track = 0
  /\ ncalls = 0
  /\ e_track = [c \in Callers |-> 0]
  /\ first_latch = None
  /\ complete_src = None
  /\ failed_src = None
  /\ wait_cause = [c \in Callers |-> None]
  /\ cancel_sent = [c \in Callers |-> FALSE]

\* before imu_wiggle is called
WiggleInit ==
  /\ w_pc = "idle"
  /\ w_args = None
  /\ attempt = 0
  /\ direction = 1
  /\ w_result = None
  /\ c_reply = None
  /\ c_result = None
  /\ last_twist = "none"
  /\ rechecks = << >>
  /\ checks = 0
  /\ get_state_requests = 0

\* run() about to be called on a freshly constructed pattern
RunInit ==
  [pc |-> "run",
   sm |-> [current_state |-> "IDLE", previous_state |-> "IDLE"],
   holes |-> ConstructHoles(NumHoles), current_hole_index |-> None,
   shutdown_requested |-> FALSE, wp_index |-> None, segment_idx |-> None,
   row_end_segment_index |-> 1]

TwinInit ==
  /\ runA = RunInit
  /\ runB = RunInit
  /\ event = NoCall

\* setup() has returned: the monitor runs, the module is loaded
SetupDone ==
  /\ setup_pc = "done"
  /\ module_ready = Some(TRUE)
  /\ converged_seen = TRUE
  /\ module_shutdowns = 0
  /\ monitor_running = TRUE
  /\ sm_last = NoCall
  /\ TwinInit

\* the pattern as setup() constructs it
PatternInit(names, rows) ==
  /\ mission_name \in names
  /\ last_row_index \in rows
  /\ holes = ConstructHoles(NumHoles)
  /\ current_hole_index = None
  /\ state_file = None
  /\ phase = "run"
  /\ ret = NoCall
  /\ ever_terminal = {}
  /\ nops = 0

InitWith(names, rows) ==
  /\ OrchInit
  /\ PlannerInit
  /\ ExecInit
  /\ WiggleInit
  /\ SetupDone
  /\ PatternInit(names, rows)

Init == InitWith(MissionNames, {TestLastRow})

(***************************************************************************)
(* get_hole: the record at index, or None when the index is invalid.       *)
(***************************************************************************)
ValidIndex(hs, index) == 0 <= index /\ index < Len(hs)

get_hole(hs, index) == IF ValidIndex(hs, index) THEN Some(hs[index + 1]) ELSE None

(***************************************************************************)
(* The effect of each mark_* operation on the hole record it finds.        *)
(***************************************************************************)
\* mark_in_progress that counts an attempt only for a PENDING hole
MarkInProgressHoleOnlyPending(hole) ==
  [hole EXCEPT !.status = "IN_PROGRESS",
               !.attempts = IF hole.status = "PENDING" THEN @ + 1 ELSE @]

MarkInProgressHole(hole) ==
  [hole EXCEPT !.status = "IN_PROGRESS", !.attempts = @ + 1]

MarkCompletedHole(hole, measurements, now) ==
  [hole EXCEPT !.status = "COMPLETED",
               !.timestamp_completed = Some(now),
               !.measurements = IF Truthy(measurements) THEN measurements[1] ELSE @]

\* mark_failed that puts the hole back in the queue for a retry
MarkFailedHoleRequeue(hole, error) ==
  [hole EXCEPT !.status = "PENDING", !.last_error = Some(error)]

MarkFailedHole(hole, error) ==
  [hole EXCEPT !.status = "FAILED", !.last_error = Some(error)]

MarkSkippedHole(hole, reason) ==
  [hole EXCEPT !.status = "SKIPPED", !.last_error = Some(reason)]

\* history of terminal statuses, kept alongside every write of holes
NoteTerminal(hs) ==
  ever_terminal' = ever_terminal \cup
     {i \in 0 .. (Len(hs) - 1) : hs[i + 1].status \in TerminalStatuses}

\* a mark_* call: made by the running mission, counted, and the last query
\* result is forgotten
Mutating ==
  /\ UNCHANGED otherVars
  /\ phase = "run"
  /\ nops < MaxOps
  /\ nops' = nops + 1
  /\ phase' = "run"
  /\ ret' = NoCall

mark_in_progress(index) ==
  /\ Mutating
  /\ IF get_hole(holes, index) # None
       THEN /\ holes' = [holes EXCEPT ![index + 1] = MarkInProgressHole(@)]
            /\ current_hole_index' = Some(index)
       ELSE UNCHANGED << holes, current_hole_index >>
  /\ NoteTerminal(holes')
  /\ UNCHANGED << mission_name, last_row_index, state_file >>

mark_completed(index, measurements, now) ==
  /\ Mutating
  /\ IF get_hole(holes, index) # None
       THEN holes' = [holes EXCEPT ![index + 1] = MarkCompletedHole(@, measurements, now)]
       ELSE UNCHANGED holes
  /\ NoteTerminal(holes')
  /\ UNCHANGED << mission_name, last_row_index, current_hole_index, state_file >>

mark_failed(index, error) ==
  /\ Mutating
  /\ IF get_hole(holes, index) # None
       THEN holes' = [holes EXCEPT ![index + 1] = MarkFailedHole(@, error)]
       ELSE UNCHANGED holes
  /\ NoteTerminal(holes')
  /\ UNCHANGED << mission_name, last_row_index, current_hole_index, state_file >>

mark_skipped(index, reason) ==
  /\ Mutating
  /\ IF get_hole(holes, index) # None
       THEN holes' = [holes EXCEPT ![index + 1] = MarkSkippedHole(@, reason)]
       ELSE UNCHANGED holes
  /\ NoteTerminal(holes')
  /\ UNCHANGED << mission_name, last_row_index, current_hole_index, state_file >>

MarkInProgress == \E index \in IndexArgs : mark_in_progress(index)

MarkCompleted ==
  \E index \in IndexArgs, m \in MeasurementArgs, now \in Instants :
     mark_completed(index, m, now)

MarkFailed == \E index \in IndexArgs, error \in ErrorTexts : mark_failed(index, error)

MarkSkipped == \E index \in IndexArgs, reason \in ErrorTexts : mark_skipped(index, reason)

(***************************************************************************)
(* Queries.                                                                *)
(***************************************************************************)
RECURSIVE FirstPendingFrom(_, _)
\* the for-loop of get_next_hole from position k on
FirstPendingFrom(hs, k) ==
  IF k > Len(hs) THEN None
  ELSE IF hs[k].status = "PENDING" THEN Some(hs[k])
  ELSE FirstPendingFrom(hs, k + 1)

\* get_next_hole whose scan starts one record late
get_next_hole_skip_first(hs) == FirstPendingFrom(hs, 2)

get_next_hole(hs) == FirstPendingFrom(hs, 1)

\* is_complete that accepts COMPLETED only
is_complete_completed_only(hs) ==
  \A k \in 1 .. Len(hs) : hs[k].status \in {"COMPLETED"}

is_complete(hs) ==
  \A k \in 1 .. Len(hs) : hs[k].status \in {"COMPLETED", "FAILED", "SKIPPED"}

\* is_echelon_end without the + 1 on the index
is_echelon_end_zero_based(index, last_row) == index % (last_row + 1) = 0

is_echelon_end(index, last_row) == (index + 1) % (last_row + 1) = 0

\* get_completion_stats: the count per status value, and the total
get_completion_stats(hs) ==
  [key \in {"total"} \cup {HoleStatusValue(s) : s \in HoleStatus} |->
     IF key = "total" THEN Len(hs)
     ELSE Cardinality({k \in 1 .. Len(hs) : HoleStatusValue(hs[k].status) = key})]

\* a query: made on the running or the freshly loaded pattern; it changes
\* nothing but the caller's result
Query ==
  /\ UNCHANGED otherVars
  /\ phase \in {"run", "loaded"}
  /\ UNCHANGED << patternVars, state_file, phase, ever_terminal, nops >>

GetNextHole ==
  /\ Query
  /\ ret' = [op |-> "get_next_hole", val |-> get_next_hole(holes)]

IsComplete ==
  /\ Query
  /\ ret' = [op |-> "is_complete", val |-> is_complete(holes)]

IsEchelonEnd ==
  \E index \in 0 .. MaxIndex :
     /\ Query
     /\ ret' = [op |-> "is_echelon_end", arg |-> index,
                val |-> is_echelon_end(index, last_row_index)]

(***************************************************************************)
(* Persistence: to_dict / json.dump / json.load / from_dict.               *)
(***************************************************************************)
\* json.dump / json.load of an Optional scalar: None is written as null
JsonDump(opt) ==
  IF opt = None THEN [type |-> "null"] ELSE [type |-> "value", value |-> opt[1]]

JsonLoad(j) == IF j.type = "null" THEN None ELSE Some(j.value)

\* HoleRecord.to_dict, as written to the file
to_dict(hole) ==
  [index |-> hole.index,
   position |-> [x |-> hole.position.translation[1],
                 y |-> hole.position.translation[2],
                 z |-> hole.position.translation[3]],
   status |-> HoleStatusValue(hole.status),
   attempts |-> hole.attempts,
   last_error |-> JsonDump(hole.last_error),
   measurements |-> hole.measurements,
   timestamp_completed |-> JsonDump(hole.timestamp_completed)]

\* from_dict that leaves attempts at the dataclass default
from_dict_default_attempts(data) ==
  [index |-> data.index,
   position |-> [frame_a |-> "world", frame_b |-> "hole",
                 translation |-> << data.position.x, data.position.y, data.position.z >>,
                 rotation |-> 0],
   status |-> HoleStatusOfValue(data.status),
   attempts |-> 0,
   last_error |-> JsonLoad(data.last_error),
   measurements |-> data.measurements,
   timestamp_completed |-> JsonLoad(data.timestamp_completed)]

\* HoleRecord.from_dict, from the file's entry: the rotation is the identity
from_dict(data) ==
  [index |-> data.index,
   position |-> [frame_a |-> "world", frame_b |-> "hole",
                 translation |-> << data.position.x, data.position.y, data.position.z >>,
                 rotation |-> 0],
   status |-> HoleStatusOfValue(data.status),
   attempts |-> data.attempts,
   last_error |-> JsonLoad(data.last_error),
   measurements |-> data.measurements,
   timestamp_completed |-> JsonLoad(data.timestamp_completed)]

\* the state dict save_state writes
SavedState(name, last_row, current, hs, now) ==
  [mission_name |-> name,
   last_row_index |-> last_row,
   current_hole_index |-> JsonDump(current),
   timestamp |-> now,
   holes |-> [k \in 1 .. Len(hs) |-> to_dict(hs[k])],
   stats |-> get_completion_stats(hs)]

\* the pattern load_state builds from the state dict
LoadedHoles(state) == [k \in 1 .. Len(state.holes) |-> from_dict(state.holes[k])]

LoadedCurrent(state) == JsonLoad(state.current_hole_index)

save_state(now) ==
  /\ phase = "run"
  /\ state_file = None
  /\ state_file' = Some(SavedState(mission_name, last_row_index,
                                   current_hole_index, holes, now))
  /\ phase' = "saved"
  /\ ret' = NoCall
  /\ UNCHANGED << patternVars, ever_terminal, nops >>
  /\ UNCHANGED otherVars

SaveState == \E now \in Instants : save_state(now)

LoadState ==
  /\ phase = "saved"
  /\ state_file # None
  /\ mission_name' = state_file[1].mission_name
  /\ last_row_index' = state_file[1].last_row_index
  /\ holes' = LoadedHoles(state_file[1])
  /\ current_hole_index' = LoadedCurrent(state_file[1])
  /\ phase' = "loaded"
  /\ ret' = NoCall
  /\ UNCHANGED << state_file, ever_terminal, nops >>
  /\ UNCHANGED otherVars

Next ==
  \/ MarkInProgress
  \/ MarkCompleted
  \/ MarkFailed
  \/ MarkSkipped
  \/ GetNextHole
  \/ IsComplete

\* the pattern store driven by any sequence of mark_* calls and queries
Spec == Init /\ [][Next]_vars

NextPersist ==
  \/ MarkInProgress
  \/ MarkCompleted
  \/ MarkFailed
  \/ MarkSkipped
  \/ SaveState
  \/ LoadState
  \/ GetNextHole

\* a mission that marks holes, stops, saves, and is loaded into a fresh pattern
SpecPersist == Init /\ [][NextPersist]_vars

(***************************************************************************)
(* The echelon rule on its own: patterns of every row length, asked about  *)
(* every index up to MaxIndex.                                             *)
(***************************************************************************)
InitEchelon == InitWith({"mission"}, 0 .. MaxLastRow)

NextEchelon == IsEchelonEnd

SpecEchelon == InitEchelon /\ [][NextEchelon]_vars

(***************************************************************************)
(* Properties of the pattern store.                                        *)
(***************************************************************************)
HolePositions == 1 .. Len(holes)

\* the indices of the holes with one of the given statuses
IndicesWithStatus(hs, statuses) ==
  {i \in 0 .. (Len(hs) - 1) : hs[i + 1].status \in statuses}

Lowest(S) == CHOOSE i \in S : \A j \in S : i <= j

\* what a step leaves alone on hole k when the hole is not touched
SameRecordedOutcome(k) ==
  /\ holes'[k].status = holes[k].status
  /\ holes'[k].attempts = holes[k].attempts
  /\ holes'[k].last_error = holes[k].last_error
  /\ holes'[k].timestamp_completed = holes[k].timestamp_completed

\* C1: load_state(save_state(p)) equals p on mission_name, last_row_index and
\* current_hole_index and, for every hole, on index, status, attempts,
\* last_error, measurements and timestamp_completed: the step that loads the
\* saved file yields a pattern equal on these fields to the one that was saved.
C1_RoundTrip ==
  [][(phase = "saved" /\ phase' = "loaded") =>
       /\ mission_name' = mission_name
       /\ last_row_index' = last_row_index
       /\ current_hole_index' = current_hole_index
       /\ Len(holes') = Len(holes)
       /\ \A k \in HolePositions :
            /\ holes'[k].index = holes[k].index
            /\ holes'[k].status = holes[k].status
            /\ holes'[k].attempts = holes[k].attempts
            /\ holes'[k].last_error = holes[k].last_error
            /\ holes'[k].measurements = holes[k].measurements
            /\ holes'[k].timestamp_completed = holes[k].timestamp_completed]_vars

\* a loaded pattern with a current hole, a completed hole that carries
\* measurements, a timestamp and an attempt, and a hole with an error text
C1_Witness ==
  /\ phase = "loaded"
  /\ current_hole_index # None
  /\ \E k \in HolePositions :
       /\ holes[k].status = "COMPLETED"
       /\ holes[k].attempts > 0
       /\ holes[k].measurements # EmptyDict
       /\ holes[k].timestamp_completed # None
  /\ \E k \in HolePositions : holes[k].last_error # None

\* C2: on load_state every hole saved as IN_PROGRESS is PENDING with its
\* attempts preserved, so get_next_hole on the loaded pattern returns the
\* lowest-index hole that was PENDING or IN_PROGRESS at save time.
C2_ResumeReopensInProgress ==
  phase = "loaded" =>
    LET saved == state_file[1].holes
        open == {i \in 0 .. (Len(saved) - 1) :
                   saved[i + 1].status \in {"pending", "in_progress"}}
    IN /\ \A k \in HolePositions :
            saved[k].status = "in_progress" =>
              /\ holes[k].status = "PENDING"
              /\ holes[k].attempts = saved[k].attempts
       /\ ret.op = "get_next_hole" =>
            IF open = {} THEN ret.val = None
            ELSE ret.val # None /\ ret.val[1].index = Lowest(open)

\* C3: terminal-once: a hole that has been COMPLETED, FAILED or SKIPPED is not
\* returned by any later get_next_hole, whatever store operations follow.
C3_TerminalOnce ==
  (ret.op = "get_next_hole" /\ ret.val # None) =>
     ret.val[1].index \notin ever_terminal

\* get_next_hole passes over a hole that was terminal and has been marked in
\* progress again since, and returns a later one
C3_Witness ==
  /\ ret.op = "get_next_hole"
  /\ ret.val # None
  /\ \E i \in ever_terminal :
       i < ret.val[1].index /\ holes[i + 1].status = "IN_PROGRESS"

\* C4: COMPLETED, FAILED and SKIPPED are terminal: across any store operation
\* a hole in one of them keeps its status, attempts, last_error and
\* timestamp_completed.
C4_TerminalIsFinal ==
  [][\A k \in HolePositions :
       holes[k].status \in TerminalStatuses => SameRecordedOutcome(k)]_vars

\* C5 as stated: attempts never decreases and increases, by exactly 1, exactly
\* when the status goes PENDING -> IN_PROGRESS, which also sets
\* current_hole_index.
C5_AttemptsOnlyFromPending ==
  [][\A k \in HolePositions :
       /\ holes'[k].attempts >= holes[k].attempts
       /\ (holes'[k].attempts # holes[k].attempts) <=>
            (holes[k].status = "PENDING" /\ holes'[k].status = "IN_PROGRESS")
       /\ (holes'[k].attempts # holes[k].attempts) =>
            /\ holes'[k].attempts = holes[k].attempts + 1
            /\ current_hole_index' = Some(k - 1)]_vars

\* C5 amended: attempts never decreases and increases, by exactly 1, exactly
\* in a mark_in_progress call on that hole, whatever the hole's status before
\* the call; the call leaves the hole IN_PROGRESS and sets current_hole_index
\* to it; no other operation alters attempts.
C5_AttemptsPerMarkInProgress ==
  [][\A k \in HolePositions :
       /\ holes'[k].attempts >= holes[k].attempts
       /\ (holes'[k].attempts # holes[k].attempts) <=> mark_in_progress(k - 1)
       /\ (holes'[k].attempts # holes[k].attempts) =>
            /\ holes'[k].attempts = holes[k].attempts + 1
            /\ holes'[k].status = "IN_PROGRESS"
            /\ current_hole_index' = Some(k - 1)]_vars

\* a hole marked in progress a second time: two attempts, and it is current
C5_Witness ==
  \E k \in HolePositions :
     /\ holes[k].attempts = 2
     /\ holes[k].status = "IN_PROGRESS"
     /\ current_hole_index = Some(k - 1)

\* C6: get_next_hole returns the hole with the lowest index among the PENDING
\* ones, none exactly when no hole is PENDING, and changes no state.
C6_NextHoleIsLowestPending ==
  /\ [](ret.op = "get_next_hole" =>
          LET pending == IndicesWithStatus(holes, {"PENDING"})
          IN IF pending = {} THEN ret.val = None
             ELSE ret.val = Some(holes[Lowest(pending) + 1]))
  /\ [][(ret'.op = "get_next_hole" /\ ret' # ret) =>
          UNCHANGED << patternVars, state_file, phase, ever_terminal, nops >>]_vars

\* get_next_hole returned hole 1 while hole 0 was not PENDING
C6_Witness ==
  /\ ret.op = "get_next_hole"
  /\ ret.val # None
  /\ ret.val[1].index = 1
  /\ holes[1].status = "IN_PROGRESS"

\* C7: mark_completed(i, m) merges m into the hole's measurements: a key stored
\* before the call that does not occur in m keeps its value, every key of m is
\* present afterwards with m's value, and with m absent nothing changes.
C7_MeasurementsMerged ==
  [][\A k \in HolePositions, m \in MeasurementArgs, now \in Instants :
       mark_completed(k - 1, m, now) =>
         LET before == holes[k].measurements
             after == holes'[k].measurements
             given == IF m = None THEN EmptyDict ELSE m[1]
         IN /\ \A key \in DOMAIN before \ DOMAIN given :
                 key \in DOMAIN after /\ after[key] = before[key]
            /\ \A key \in DOMAIN given :
                 key \in DOMAIN after /\ after[key] = given[key]
            /\ m = None => after = before]_vars

\* C8: a hole's timestamp_completed is set if and only if its status is
\* COMPLETED.
C8_TimestampIffCompleted ==
  \A k \in HolePositions :
     (holes[k].timestamp_completed # None) <=> (holes[k].status = "COMPLETED")

\* C9: is_complete() is true if and only if no hole is PENDING or IN_PROGRESS.
C9_CompleteIffNoneOpen ==
  ret.op = "is_complete" =>
    (ret.val <=> IndicesWithStatus(holes, {"PENDING", "IN_PROGRESS"}) = {})

\* is_complete answered true for a pattern whose holes did not all succeed
C9_Witness ==
  /\ ret.op = "is_complete"
  /\ ret.val
  /\ \E k \in HolePositions : holes[k].status \in {"FAILED", "SKIPPED"}

\* C10: echelon rule: is_echelon_end(i) is true exactly for the indices i with
\* i + 1 a positive multiple of last_row_index + 1 (the last hole of each row).
C10_EchelonRule ==
  ret.op = "is_echelon_end" =>
    (ret.val <=>
       \E n \in 1 .. (ret.arg + 1) : ret.arg + 1 = n * (last_row_index + 1))

\* with four holes per row, index 7 (the end of the second row) is an end
C10_Witness ==
  /\ ret.op = "is_echelon_end"
  /\ last_row_index = 3
  /\ ret.arg = 7
  /\ ret.val

(***************************************************************************)
(* NavigationStateMachine (src/amiga_platform/core/state_machine.py).  A   *)
(* machine value is the pair of its two fields; each method is the machine *)
(* it leaves.                                                              *)
(***************************************************************************)
SM == [current_state |-> current_state, previous_state |-> previous_state]

\* a transition that records the old state even when re-entering it
transition_unguarded(sm, new_state) ==
  [current_state |-> new_state, previous_state |-> sm.current_state]

transition(sm, new_state) ==
  IF new_state # sm.current_state
    THEN [current_state |-> new_state, previous_state |-> sm.current_state]
    ELSE sm

\* line 82: the (from, to) pair transition logs, None when it logs nothing
transition_log(sm, new_state) ==
  IF new_state # sm.current_state
    THEN Some(<< sm.current_state, new_state >>) ELSE None

\* is_terminal that also counts UPDATING_PATTERN
is_terminal_or_updating(sm) ==
  sm.current_state \in {"COMPLETE", "FAILED", "EMERGENCY_STOP", "UPDATING_PATTERN"}

is_terminal(sm) == sm.current_state \in {"COMPLETE", "FAILED", "EMERGENCY_STOP"}

\* the state each transition method asks for (lines 112-254); the legacy
\* names run() calls delegate to the flowchart-aligned ones
sm_target(method) ==
  CASE method = "start" -> "PLANNING"
    [] method = "goal_set" -> "PLOTTING_PATH"
    [] method = "path_plotted" -> "FOLLOWING_PATH"
    [] method = "approaching_stop" -> "STOPPING"
    [] method = "hole_detected" -> "CONVERTING"
    [] method = "ready_for_module" -> "MODULE_PHASE"
    [] method = "module_complete" -> "UPDATING_PATTERN"
    [] method = "enter_recovery" -> "RECOVERING"
    [] method = "abort" -> "FAILED"
    [] method = "mission_complete" -> "COMPLETE"
    [] method = "waypoint_planned" -> "PLOTTING_PATH"
    [] method = "search_zone_reached" -> "STOPPING"
    [] method = "hole_not_found" -> "PLOTTING_PATH"
    [] method = "path_refined" -> "FOLLOWING_PATH"
    [] method = "track_complete" -> "MODULE_PHASE"
    [] method = "track_failed" -> "RECOVERING"
    [] method = "tool_complete" -> "UPDATING_PATTERN"
    [] method = "tool_failed" -> "RECOVERING"
    [] method = "all_waypoints_complete" -> "COMPLETE"
    [] method = "initialize" -> "INITIALIZING"
    [] method = "initialization_complete" -> "PLANNING"
    [] method = "stopped" -> "DETECTING"
    [] method = "coordinates_converted" -> "PLOTTING_PATH"
    [] method = "echelon_turn_complete" -> "PLANNING"
    [] method = "segment_timeout_detected" -> "SEGMENT_TIMEOUT"
    [] method = "retry" -> "PLANNING"
    [] method = "skip_hole" -> "PLANNING"
    [] method = "skip" -> "PLANNING"
    [] method = "emergency_stop" -> "EMERGENCY_STOP"
    [] method = "start_return" -> "RETURNING"
    [] method = "shutdown" -> "COMPLETE"

\* pattern_updated that tests the echelon end before the completion
pattern_updated_echelon_first(is_complete_arg, is_echelon_end_arg) ==
  IF is_echelon_end_arg THEN "ECHELON_TURN"
  ELSE IF is_complete_arg THEN "RETURNING" ELSE "PLANNING"

\* lines 159-171: the state pattern_updated asks for
pattern_updated(is_complete_arg, is_echelon_end_arg) ==
  IF is_complete_arg THEN "RETURNING"
  ELSE IF is_echelon_end_arg THEN "ECHELON_TURN" ELSE "PLANNING"

\* the machine after a call of the method
sm_call(sm, method) == transition(sm, sm_target(method))

\* the machine after the calls of one step
SetSM(sm) ==
  /\ current_state' = sm.current_state
  /\ previous_state' = sm.previous_state

(***************************************************************************)
(* PathPlanner.plan_row_end_maneuver: the segment it returns for a value   *)
(* of row_end_segment_index, and the value it leaves.                      *)
(***************************************************************************)
RowEndTrack(idx) ==
  CASE idx = 1 -> [name |-> "row_end_1", kind |-> "straight"]
    [] idx = 2 -> [name |-> "row_end_2", kind |-> "turn"]
    [] idx = 3 -> [name |-> "row_end_3", kind |-> "straight"]
    [] idx = 4 -> [name |-> "row_end_4", kind |-> "turn"]
    [] OTHER -> [name |-> "", kind |-> "empty"]

\* plan_row_end_maneuver whose reset starts the count at 0
plan_row_end_index_reset_zero(idx) == IF idx > 4 THEN 0 ELSE idx + 1

plan_row_end_index(idx) == IF idx > 4 THEN 1 ELSE idx + 1

plan_row_end_maneuver(idx) == IF idx > 4 THEN None ELSE Some(RowEndTrack(idx))

(***************************************************************************)
(* XStemNavigator.run (src/main.py): one action per stretch of code        *)
(* between two awaits.  The awaited calls (planner, executor, vision,      *)
(* module) hand back any of the results their signatures allow.            *)
(***************************************************************************)
\* the pattern after the mark_* calls, as the orchestrator makes them

\* a mark_in_progress that leaves the hole as it was
HolesMarkInProgressNoOp(hs, index) == hs

HolesMarkInProgress(hs, index) ==
  IF get_hole(hs, index) # None
    THEN [hs EXCEPT ![index + 1] = MarkInProgressHole(@)] ELSE hs

\* a completion that turns into a failure when the clock reads the later instant
HolesMarkCompletedByClock(hs, index, measurements, now) ==
  IF get_hole(hs, index) = None THEN hs
  ELSE IF now = "2026-01-01T08:05:00"
    THEN [hs EXCEPT ![index + 1] = MarkFailedHole(@, "late")]
    ELSE [hs EXCEPT ![index + 1] = MarkCompletedHole(@, measurements, now)]

HolesMarkCompleted(hs, index, measurements, now) ==
  IF get_hole(hs, index) # None
    THEN [hs EXCEPT ![index + 1] = MarkCompletedHole(@, measurements, now)] ELSE hs

HolesMarkFailed(hs, index, error) ==
  IF get_hole(hs, index) # None
    THEN [hs EXCEPT ![index + 1] = MarkFailedHole(@, error)] ELSE hs

\* ModuleResult.error: Optional[str]
ModuleErrors == {None} \cup {Some(e) : e \in ErrorTexts}

\* the ModuleResult values execute() may return, by the fields run() reads
ModuleResults ==
  {[success |-> TRUE, measurements |-> m, error |-> None] :
     m \in MeasurementArgs}
    \cup {[success |-> FALSE, measurements |-> None, error |-> e] :
             e \in ModuleErrors}

\* NullModule.execute (src/modules/base_module.py, line 228)
NullModuleResult == [success |-> TRUE, measurements |-> None, error |-> None]

\* result.error or "Unknown error"
ErrorOrUnknown(error) == IF error = None THEN "Unknown error" ELSE error[1]

\* positions of run() at which it is suspended in an await
AwaitingPcs ==
  {"row_end_plan", "row_end_exec", "plan_approach", "exec_approach",
   "detect", "plan_final", "exec_final", "module"}

\* what every step of run() leaves alone in the store
OrchStoreFrame ==
  UNCHANGED << mission_name, last_row_index, state_file, phase, ret, nops, envVars >>

\* line 161, once main() has awaited setup()
RunStart ==
  /\ setup_pc = "done"
  /\ o_pc = "run"
  /\ SetSM(sm_call(SM, "start"))
  /\ o_pc' = "loop"
  /\ UNCHANGED << storeVars, envVars, shutdown_requested, wp_index, segment_idx, plannerVars >>

\* lines 164-190: the loop test, get_next_hole, mark_in_progress, the
\* echelon test
LoopHead ==
  /\ o_pc = "loop"
  /\ OrchStoreFrame
  /\ UNCHANGED << shutdown_requested, row_end_segment_index, row_end_returns,
                  approach >>
  /\ IF shutdown_requested \/ is_terminal(SM)
       THEN /\ o_pc' = "shutdown"
            /\ UNCHANGED << holes, current_hole_index, ever_terminal, maneuvers,
                            current_state, previous_state, wp_index, segment_idx >>
       ELSE IF get_next_hole(holes) = None
         THEN /\ SetSM(sm_call(SM, "all_waypoints_complete"))
              /\ o_pc' = "shutdown"
              /\ UNCHANGED << holes, current_hole_index, ever_terminal,
                              maneuvers, wp_index, segment_idx >>
         ELSE LET index == get_next_hole(holes)[1].index IN
              /\ wp_index' = Some(index)
              /\ holes' = HolesMarkInProgress(holes, index)
              /\ current_hole_index' =
                   IF get_hole(holes, index) # None THEN Some(index)
                   ELSE current_hole_index
              /\ NoteTerminal(holes')
              /\ SetSM(sm_call(SM, "waypoint_planned"))
              /\ IF is_echelon_end(index, last_row_index)
                   THEN /\ o_pc' = "row_end_plan"
                        /\ segment_idx' = Some(1)
                        /\ maneuvers' = Append(maneuvers, << >>)
                   ELSE /\ o_pc' = "plan_approach"
                        /\ UNCHANGED << segment_idx, maneuvers >>

\* lines 193-194, after _execute_row_end_maneuver returned
AfterRowEnd(now) ==
  /\ holes' = HolesMarkCompleted(holes, wp_index[1], None, now)
  /\ NoteTerminal(holes')
  /\ o_pc' = "loop"
  /\ UNCHANGED << current_hole_index, current_state, previous_state,
                  shutdown_requested, wp_index >>

\* lines 289-291: plan_row_end_maneuver returned
RowEndPlan ==
  /\ o_pc = "row_end_plan"
  /\ OrchStoreFrame
  /\ row_end_segment_index' = plan_row_end_index(row_end_segment_index)
  /\ row_end_returns' =
       Append(row_end_returns, plan_row_end_maneuver(row_end_segment_index))
  /\ UNCHANGED << approach, maneuvers >>
  /\ IF plan_row_end_maneuver(row_end_segment_index) = None
       THEN /\ \E now \in Instants : AfterRowEnd(now)
            /\ UNCHANGED segment_idx
       ELSE /\ o_pc' = "row_end_exec"
            /\ UNCHANGED << holes, current_hole_index, ever_terminal,
                            current_state, previous_state, shutdown_requested,
                            wp_index, segment_idx >>

\* lines 294-299: execute_track of a row-end segment returned
RowEndExec ==
  \E success \in BOOLEAN :
    /\ o_pc = "row_end_exec"
    /\ OrchStoreFrame
    /\ UNCHANGED << row_end_segment_index, row_end_returns, approach >>
    /\ maneuvers' =
         [maneuvers EXCEPT ![Len(maneuvers)] =
            Append(@, [track |-> row_end_returns[Len(row_end_returns)][1],
                       success |-> success])]
    /\ IF success /\ segment_idx[1] < 4
         THEN /\ segment_idx' = Some(segment_idx[1] + 1)
              /\ o_pc' = "row_end_plan"
              /\ UNCHANGED << holes, current_hole_index, ever_terminal,
                              current_state, previous_state,
                              shutdown_requested, wp_index >>
         ELSE /\ \E now \in Instants : AfterRowEnd(now)
              /\ UNCHANGED segment_idx

\* lines 197-203: plan_approach_segment returned
PlanApproach ==
  /\ o_pc = "plan_approach"
  /\ SetSM(sm_call(SM, "search_zone_reached"))
  /\ o_pc' = "exec_approach"
  /\ UNCHANGED << storeVars, envVars, shutdown_requested, wp_index, segment_idx, plannerVars >>

\* a failed track: lines 207-211 and 241-244
TrackFailed ==
  /\ SetSM(sm_call(SM, "track_failed"))
  /\ o_pc' = "loop"

\* lines 205-215: execute_track of the approach segment returned
ExecApproach(success) ==
  /\ o_pc = "exec_approach"
  /\ IF success
       THEN o_pc' = "detect" /\ UNCHANGED << current_state, previous_state >>
       ELSE TrackFailed
  /\ UNCHANGED << storeVars, envVars, shutdown_requested, wp_index, segment_idx, plannerVars >>

\* lines 215-233: the detection returned a pose, or there is none (vision
\* disabled, no vision system, or nothing detected)
Detect(found) ==
  /\ o_pc = "detect"
  /\ SetSM(sm_call(IF found THEN sm_call(SM, "hole_detected")
                           ELSE sm_call(SM, "hole_not_found"), "path_refined"))
  /\ o_pc' = "plan_final"
  /\ UNCHANGED << storeVars, envVars, shutdown_requested, wp_index, segment_idx, plannerVars >>

\* lines 235-237: get_current_pose and plan_segment returned
PlanFinal ==
  /\ o_pc = "plan_final"
  /\ o_pc' = "exec_final"
  /\ UNCHANGED << storeVars, envVars, current_state, previous_state,
                  shutdown_requested, wp_index, segment_idx, plannerVars >>

\* lines 239-247: execute_track of the final segment returned
ExecFinal(success) ==
  /\ o_pc = "exec_final"
  /\ IF success
       THEN SetSM(sm_call(SM, "track_complete")) /\ o_pc' = "module"
       ELSE TrackFailed
  /\ UNCHANGED << storeVars, envVars, shutdown_requested, wp_index, segment_idx, plannerVars >>

\* lines 251-273: get_current_pose and module.execute returned
ModuleExecute(result) ==
  /\ o_pc = "module"
  /\ OrchStoreFrame
  /\ IF result.success
       THEN \E now \in Instants :
              /\ holes' = HolesMarkCompleted(holes, wp_index[1],
                                             result.measurements, now)
              /\ SetSM(sm_call(SM, "tool_complete"))
       ELSE /\ holes' = HolesMarkFailed(holes, wp_index[1],
                                        ErrorOrUnknown(result.error))
            /\ SetSM(sm_call(SM, "tool_failed"))
  /\ NoteTerminal(holes')
  /\ o_pc' = "loop"
  /\ UNCHANGED << current_hole_index, shutdown_requested, wp_index,
                  segment_idx, plannerVars >>

\* lines 278-280: an awaited call raised
RunRaises ==
  /\ o_pc \in AwaitingPcs
  /\ SetSM(sm_call(SM, "abort"))
  /\ o_pc' = "shutdown"
  /\ UNCHANGED << storeVars, envVars, shutdown_requested, wp_index, segment_idx, plannerVars >>

\* a cancellation that leaves run() without its finally clause
RunCancelledNoFinally ==
  /\ o_pc \in AwaitingPcs
  /\ o_pc' = "done"
  /\ UNCHANGED << storeVars, envVars, current_state, previous_state,
                  shutdown_requested, wp_index, segment_idx, plannerVars >>

\* lines 276-277: the task of run() is cancelled while it awaits
RunCancelled ==
  /\ o_pc \in AwaitingPcs
  /\ o_pc' = "shutdown"
  /\ UNCHANGED << storeVars, envVars, current_state, previous_state,
                  shutdown_requested, wp_index, segment_idx, plannerVars >>

\* lines 281-282 and 303-319: finally: shutdown(), which awaits
\* module.shutdown() and NavigationManager.shutdown() (the monitor task is
\* cancelled and awaited, then cancel_track is requested)
Shutdown ==
  /\ o_pc = "shutdown"
  /\ shutdown_requested' = TRUE
  /\ module_shutdowns' = module_shutdowns + 1
  /\ monitor_running' = FALSE
  /\ o_pc' = "done"
  /\ UNCHANGED << storeVars, execVars, wiggleVars, setup_pc, module_ready,
                  converged_seen, sm_last, twinVars, current_state,
                  previous_state, wp_index, segment_idx, plannerVars >>

\* main()'s signal handler: SIGINT / SIGTERM set the flag
SignalHandler ==
  /\ o_pc # "done"
  /\ ~shutdown_requested
  /\ shutdown_requested' = TRUE
  /\ UNCHANGED << storeVars, envVars, o_pc, current_state, previous_state, wp_index,
                  segment_idx, plannerVars >>

NextOrch ==
  \/ RunStart
  \/ LoopHead
  \/ RowEndPlan
  \/ RowEndExec
  \/ PlanApproach
  \/ \E success \in BOOLEAN : ExecApproach(success)
  \/ \E found \in BOOLEAN : Detect(found)
  \/ PlanFinal
  \/ \E success \in BOOLEAN : ExecFinal(success)
  \/ \E result \in ModuleResults : ModuleExecute(result)
  \/ RunRaises
  \/ RunCancelled
  \/ Shutdown
  \/ SignalHandler

\* one run of the orchestrator over the pattern
SpecOrch == Init /\ [][NextOrch]_vars

\* holes whose status is IN_PROGRESS
InProgressHoles == IndicesWithStatus(holes, {"IN_PROGRESS"})

\* C11: in every reachable state of an orchestrator run, current_hole_index,
\* whenever it is set, names a hole whose status is IN_PROGRESS, and no
\* other hole is IN_PROGRESS (at most one hole is IN_PROGRESS at a time)
C11_CurrentIsTheInProgressHole ==
  /\ current_hole_index # None => InProgressHoles = {current_hole_index[1]}
  /\ Cardinality(InProgressHoles) <= 1

(***************************************************************************)
(* NavigationManager (src/amiga_platform/navigation/navigation_manager.py) *)
(* with the track follower service it talks to.  A calling task steps      *)
(* through execute_track from await to await; the monitor task receives    *)
(* the follower's published states one by one.  Every message carries, as  *)
(* history, the number of the track it is about.                           *)
(***************************************************************************)
TerminalTrackStatuses ==
  {"TRACK_COMPLETE", "TRACK_FAILED", "TRACK_ABORTED", "TRACK_CANCELLED"}

\* the statuses _monitor_state maps to the failed latch
FailedTrackStatuses == {"TRACK_FAILED", "TRACK_ABORTED", "TRACK_CANCELLED"}

\* the statuses with which the follower ends a track by itself
FinishStatuses == {"TRACK_COMPLETE", "TRACK_FAILED", "TRACK_ABORTED"}

latchVars == << track_complete, track_failed, first_latch, complete_src, failed_src >>
followerVars == << f_status, f_track >>

\* asyncio.wait's done set when the waiting task is resumed: the wait()
\* task of every latch that is set
DoneTasks(complete_is_set, failed_is_set) ==
  (IF complete_is_set THEN {"complete"} ELSE {}) \cup
  (IF failed_is_set THEN {"failed"} ELSE {})

\* execute_track's return value that inspects the latch on every path
ExecuteResultNoTimeoutBranch(done, complete_is_set) == complete_is_set

\* lines 132-143: execute_track's return value
ExecuteResult(done, complete_is_set) ==
  IF done = {} THEN FALSE ELSE complete_is_set

\* the follower after a /cancel request; ok = FALSE: the request raised
FollowerAfterCancel(status, ok) ==
  IF ok /\ status \in {"TRACK_LOADED", "TRACK_FOLLOWING"}
    THEN "TRACK_CANCELLED" ELSE status

\* return result from execute_track
ExecReturn(c, result) ==
  /\ e_result' = [e_result EXCEPT ![c] = Some(result)]
  /\ e_pc' = [e_pc EXCEPT ![c] = "idle"]

\* async with self._lock, entered from position pc: the task holds the lock
\* and awaits its request (position at), or waits for the lock
EnterLock(c, at) ==
  IF lock = None
    THEN lock' = Some(c) /\ e_pc' = [e_pc EXCEPT ![c] = at]
    ELSE UNCHANGED lock /\ e_pc' = [e_pc EXCEPT ![c] = at \o "_lock"]

\* lines 97-104: a task calls execute_track: it clears the latches and
\* requests /set_track
ExecuteTrackCall(c) ==
  /\ e_pc[c] = "idle"
  /\ ncalls < MaxCalls
  /\ track_complete' = FALSE
  /\ track_failed' = FALSE
  /\ first_latch' = None
  /\ complete_src' = None
  /\ failed_src' = None
  /\ ncalls' = ncalls + 1
  /\ e_track' = [e_track EXCEPT ![c] = ncalls + 1]
  /\ e_result' = [e_result EXCEPT ![c] = None]
  /\ e_done' = [e_done EXCEPT ![c] = {}]
  /\ wait_cause' = [wait_cause EXCEPT ![c] = None]
  /\ cancel_sent' = [cancel_sent EXCEPT ![c] = FALSE]
  /\ EnterLock(c, "set_track")
  /\ UNCHANGED << current_status, stream, followerVars, nonExecVars >>

\* lines 104-106: the reply to /set_track; the follower holds the new track
SetTrackReply(c) ==
  /\ e_pc[c] = "set_track"
  /\ f_track' = e_track[c]
  /\ f_status' = "TRACK_LOADED"
  /\ lock' = None
  /\ e_pc' = [e_pc EXCEPT ![c] = "sleep"]
  /\ UNCHANGED << latchVars, current_status, e_done, e_result, stream, ncalls,
                  e_track, wait_cause, cancel_sent, nonExecVars >>

\* lines 106-110: the sleep is over; the task requests /start
SleepDone(c) ==
  /\ e_pc[c] = "sleep"
  /\ EnterLock(c, "start")
  /\ UNCHANGED << latchVars, current_status, e_done, e_result, stream,
                  followerVars, ncalls, e_track, wait_cause, cancel_sent,
                  nonExecVars >>

\* lines 110-122: the reply to /start; the follower follows its track and
\* the task waits on the two latches
StartReply(c) ==
  /\ e_pc[c] = "start"
  /\ f_status' = IF f_status = "TRACK_LOADED" THEN "TRACK_FOLLOWING" ELSE f_status
  /\ lock' = None
  /\ e_pc' = [e_pc EXCEPT ![c] = "wait"]
  /\ UNCHANGED << latchVars, current_status, e_done, e_result, stream, f_track,
                  ncalls, e_track, wait_cause, cancel_sent, nonExecVars >>

\* lines 115-143: a latch is set and the waiting task is resumed.  With both
\* wait() tasks done nothing is pending and the task runs on to its return.
WaitWake(c) ==
  /\ e_pc[c] = "wait"
  /\ track_complete \/ track_failed
  /\ LET done == DoneTasks(track_complete, track_failed) IN
       /\ e_done' = [e_done EXCEPT ![c] = done]
       /\ wait_cause' = [wait_cause EXCEPT ![c] = first_latch]
       /\ IF done = {"complete", "failed"}
            THEN ExecReturn(c, ExecuteResult(done, track_complete))
            ELSE e_pc' = [e_pc EXCEPT ![c] = "cancel_pending"] /\ UNCHANGED e_result
  /\ UNCHANGED << latchVars, current_status, lock, stream, followerVars, ncalls,
                  e_track, cancel_sent, nonExecVars >>

\* lines 115-122: the timeout elapses with no latch set
WaitTimeout(c) ==
  /\ e_pc[c] = "wait"
  /\ ~track_complete /\ ~track_failed
  /\ e_done' = [e_done EXCEPT ![c] = {}]
  /\ wait_cause' = [wait_cause EXCEPT ![c] = Some("timeout")]
  /\ e_pc' = [e_pc EXCEPT ![c] = "cancel_pending"]
  /\ UNCHANGED << latchVars, current_status, lock, e_result, stream,
                  followerVars, ncalls, e_track, cancel_sent, nonExecVars >>

\* lines 125-143: the pending wait() tasks are cancelled; on a timeout the
\* task calls cancel_track, otherwise it inspects track_complete and returns
PendingCancelled(c) ==
  /\ e_pc[c] = "cancel_pending"
  /\ IF e_done[c] = {}
       THEN /\ EnterLock(c, "timeout_cancel")
            /\ UNCHANGED e_result
       ELSE /\ ExecReturn(c, ExecuteResult(e_done[c], track_complete))
            /\ UNCHANGED lock
  /\ UNCHANGED << latchVars, current_status, e_done, stream, followerVars,
                  ncalls, e_track, wait_cause, cancel_sent, nonExecVars >>

\* lines 134-135 and 147-152: the /cancel of a timed-out call is answered,
\* or raises and is logged; execute_track returns
TimeoutCancelReply(c) ==
  \E ok \in BOOLEAN :
    /\ e_pc[c] = "timeout_cancel"
    /\ f_status' = FollowerAfterCancel(f_status, ok)
    /\ lock' = None
    /\ cancel_sent' = [cancel_sent EXCEPT ![c] = TRUE]
    /\ ExecReturn(c, ExecuteResult(e_done[c], track_complete))
    /\ UNCHANGED << latchVars, current_status, e_done, stream, f_track, ncalls,
                    e_track, wait_cause, nonExecVars >>

\* lines 145-147: a task calls cancel_track
CancelTrackCall(c) ==
  /\ e_pc[c] = "idle"
  /\ EnterLock(c, "cancel")
  /\ UNCHANGED << latchVars, current_status, e_done, e_result, stream,
                  followerVars, ncalls, e_track, wait_cause, cancel_sent,
                  nonExecVars >>

\* lines 148-152: the /cancel of a cancel_track call is answered or raises
CancelTrackReply(c) ==
  \E ok \in BOOLEAN :
    /\ e_pc[c] = "cancel"
    /\ f_status' = FollowerAfterCancel(f_status, ok)
    /\ lock' = None
    /\ e_pc' = [e_pc EXCEPT ![c] = "idle"]
    /\ UNCHANGED << latchVars, current_status, e_done, e_result, stream,
                    f_track, ncalls, e_track, wait_cause, cancel_sent,
                    nonExecVars >>

\* positions at which a task waits for self._lock, and where it goes with it
LockWaitPcs == {"set_track_lock", "start_lock", "timeout_cancel_lock", "cancel_lock"}

AfterLock(pc) ==
  CASE pc = "set_track_lock" -> "set_track"
    [] pc = "start_lock" -> "start"
    [] pc = "timeout_cancel_lock" -> "timeout_cancel"
    [] pc = "cancel_lock" -> "cancel"

\* asyncio.Lock.acquire of a task that had to wait
AcquireLock(c) ==
  /\ e_pc[c] \in LockWaitPcs
  /\ lock = None
  /\ lock' = Some(c)
  /\ e_pc' = [e_pc EXCEPT ![c] = AfterLock(e_pc[c])]
  /\ UNCHANGED << latchVars, current_status, e_done, e_result, stream,
                  followerVars, ncalls, e_track, wait_cause, cancel_sent,
                  nonExecVars >>

\* the follower ends the track it follows
FollowerFinish ==
  \E status \in FinishStatuses :
    /\ f_status = "TRACK_FOLLOWING"
    /\ f_status' = status
    /\ UNCHANGED << latchVars, current_status, lock, e_pc, e_done, e_result,
                    stream, f_track, ncalls, e_track, wait_cause, cancel_sent,
                    nonExecVars >>

\* the follower publishes its state while its status is terminal
FollowerPublish ==
  /\ f_status \in TerminalTrackStatuses
  /\ Len(stream) < MaxStream
  /\ stream' = Append(stream, [status |-> f_status, track |-> f_track])
  /\ UNCHANGED << latchVars, current_status, lock, e_pc, e_done, e_result,
                  followerVars, ncalls, e_track, wait_cause, cancel_sent,
                  nonExecVars >>

\* lines 62-81: _monitor_state receives the next published state
MonitorDeliver ==
  /\ monitor_running
  /\ stream # << >>
  /\ LET message == Head(stream) IN
       /\ current_status' = Some(message.status)
       /\ IF message.status = "TRACK_COMPLETE"
            THEN /\ track_complete' = TRUE
                 /\ complete_src' = IF track_complete THEN complete_src
                                    ELSE Some(message.track)
                 /\ first_latch' = IF first_latch = None THEN Some("complete")
                                   ELSE first_latch
                 /\ UNCHANGED << track_failed, failed_src >>
            ELSE IF message.status \in FailedTrackStatuses
              THEN /\ track_failed' = TRUE
                   /\ failed_src' = IF track_failed THEN failed_src
                                    ELSE Some(message.track)
                   /\ first_latch' = IF first_latch = None THEN Some("failed")
                                     ELSE first_latch
                   /\ UNCHANGED << track_complete, complete_src >>
              ELSE UNCHANGED latchVars
  /\ stream' = Tail(stream)
  /\ UNCHANGED << lock, e_pc, e_done, e_result, followerVars, ncalls, e_track,
                  wait_cause, cancel_sent, nonExecVars >>

\* the orchestrator's task, the only caller in src/main.py
RunTask == 1

NextExec ==
  \/ ExecuteTrackCall(RunTask)
  \/ SetTrackReply(RunTask)
  \/ SleepDone(RunTask)
  \/ StartReply(RunTask)
  \/ WaitWake(RunTask)
  \/ WaitTimeout(RunTask)
  \/ PendingCancelled(RunTask)
  \/ TimeoutCancelReply(RunTask)
  \/ FollowerFinish
  \/ FollowerPublish
  \/ MonitorDeliver

InitExec == InitWith({"mission"}, {TestLastRow})

\* execute_track called again and again by one task, beside the monitor
SpecExec == InitExec /\ [][NextExec]_vars

\* C12: execute_track's result reflects how its wait ended: true when the
\* wait ended on the complete latch, false when it ended on the failed latch
\* or on the timeout, also when both latches are set at the inspection
C12_ResultReflectsWaitEnd ==
  \A c \in Callers :
     e_result[c] # None =>
        (e_result[c][1] <=> wait_cause[c] = Some("complete"))

\* the event loop runs a resumed task, the timeout timer fires, and every
\* /cancel request ends with a reply or an exception
SpecExecFair ==
  /\ InitExec
  /\ [][NextExec]_vars
  /\ WF_vars(WaitWake(RunTask))
  /\ WF_vars(WaitTimeout(RunTask))
  /\ WF_vars(PendingCancelled(RunTask))
  /\ WF_vars(TimeoutCancelReply(RunTask))

\* C13: a call that waits eventually returns, and a call whose wait ended on
\* the timeout (no terminal status reached a latch) has sent /cancel and
\* returns false
C13_TimeoutCancelsAndReturnsFalse ==
  /\ [](e_result[RunTask] # None /\ wait_cause[RunTask] = Some("timeout")
          => cancel_sent[RunTask] /\ e_result[RunTask] = Some(FALSE))
  /\ [](e_pc[RunTask] = "timeout_cancel" => wait_cause[RunTask] = Some("timeout"))
  /\ (e_pc[RunTask] = "wait" ~> e_result[RunTask] # None)

\* a call returned false after its timeout and /cancel, the follower having
\* reported nothing: no latch is set, and the follower's track is cancelled
C13_Witness ==
  /\ e_result[RunTask] = Some(FALSE)
  /\ wait_cause[RunTask] = Some("timeout")
  /\ cancel_sent[RunTask]
  /\ ~track_complete /\ ~track_failed
  /\ f_status = "TRACK_CANCELLED"

\* C14: a terminal status of an earlier track, delivered after that track's
\* execute_track returned, does not decide the next execute_track: the
\* latch that ended a call's wait was set by a status of the call's own track
C14_StaleStatusDoesNotDecide ==
  \A c \in Callers :
     e_result[c] # None =>
        /\ wait_cause[c] = Some("complete") => complete_src = Some(e_track[c])
        /\ wait_cause[c] = Some("failed") => failed_src = Some(e_track[c])

NextExecConc ==
  \/ \E c \in Callers : ExecuteTrackCall(c)
  \/ \E c \in Callers : SetTrackReply(c)
  \/ \E c \in Callers : SleepDone(c)
  \/ \E c \in Callers : StartReply(c)
  \/ \E c \in Callers : WaitWake(c)
  \/ \E c \in Callers : WaitTimeout(c)
  \/ \E c \in Callers : PendingCancelled(c)
  \/ \E c \in Callers : TimeoutCancelReply(c)
  \/ \E c \in Callers : CancelTrackCall(c)
  \/ \E c \in Callers : CancelTrackReply(c)
  \/ \E c \in Callers : AcquireLock(c)
  \/ FollowerFinish
  \/ FollowerPublish
  \/ MonitorDeliver

\* the NavigationManager called by two tasks at once
SpecExecConc == InitExec /\ [][NextExecConc]_vars

\* a task is between the latch clearing of its execute_track and its return
InExecuteTrack(c) == e_pc[c] \notin {"idle", "cancel", "cancel_lock"}

\* a task has performed a step of a call: it is inside execute_track, or it
\* holds the lock of cancel_track with /cancel sent
HasStepped(c) == e_pc[c] \notin {"idle", "cancel_lock"}

\* C15: execute_track is serialized: while one call is between its latch
\* clearing and its return, no other execute_track call and no cancel_track
\* call has performed any of its steps
C15_ExecuteIsSerialized ==
  \A c \in Callers, d \in Callers :
     c # d /\ InExecuteTrack(c) => ~HasStepped(d)

(***************************************************************************)
(* imu_wiggle and check_filter_convergence (src/hardware/filter_utils.py). *)
(* The filter service answers a /get_state request with a state that       *)
(* reports converged or not, or that lacks the field; or the request times *)
(* out or raises.  A /twist request to the CAN bus service is answered, or *)
(* raises (cancellation included).                                         *)
(***************************************************************************)
FilterReplies == {"converged", "not_converged", "no_field", "timeout", "error"}

\* check_filter_convergence that takes a timeout for a converged filter
check_filter_convergence_timeout_true(reply) ==
  reply \in {"converged", "timeout"}

\* lines 78-94: the value check_filter_convergence returns for each way its
\* request ends; no way makes it raise
check_filter_convergence(reply) ==
  CASE reply = "converged" -> TRUE
    [] reply = "not_converged" -> FALSE
    [] reply = "no_field" -> FALSE
    [] reply = "timeout" -> FALSE
    [] reply = "error" -> FALSE

\* imu_wiggle's arguments: max_attempts, check_convergence, and whether a
\* filter_client is given
WiggleArgs ==
  [max_attempts : 0 .. MaxAttempts, check_convergence : BOOLEAN,
   filter_client : BOOLEAN]

\* filter_client and check_convergence
Checking(args) == args.filter_client /\ args.check_convergence

\* the while condition that lets one more attempt through
WiggleLoopContinuesInclusive(att, max_attempts) == att <= max_attempts

\* line 134: the while condition
WiggleLoopContinues(att, max_attempts) == att < max_attempts

\* the number of entries of the directions list (lines 143-148)
NumDirections == 4

\* a check_filter_convergence call sends its /get_state request
CheckCall ==
  /\ checks' = checks + 1
  /\ get_state_requests' = get_state_requests + 1
  /\ c_reply' = None
  /\ c_result' = None

\* lines 133-135 and 185-187: the loop test; one more attempt, or return False
WiggleLoopHead(att, max_attempts) ==
  IF WiggleLoopContinues(att, max_attempts)
    THEN /\ attempt' = att + 1
         /\ direction' = 1
         /\ w_pc' = "twist"
         /\ UNCHANGED w_result
    ELSE /\ attempt' = att
         /\ w_result' = Some(FALSE)
         /\ w_pc' = "returned"
         /\ UNCHANGED direction

\* lines 123-135: imu_wiggle is called
WiggleCall ==
  \E args \in WiggleArgs :
    /\ w_pc = "idle"
    /\ w_args' = Some(args)
    /\ IF Checking(args)
         THEN /\ CheckCall
              /\ w_pc' = "initial_check"
              /\ UNCHANGED << attempt, direction, w_result >>
         ELSE /\ WiggleLoopHead(0, args.max_attempts)
              /\ UNCHANGED << checks, get_state_requests, c_reply, c_result >>
    /\ UNCHANGED << last_twist, rechecks, nonWiggleVars >>

\* lines 128-135: the initial check returns
InitialCheckReply ==
  \E reply \in FilterReplies :
    /\ w_pc = "initial_check"
    /\ c_reply' = Some(reply)
    /\ c_result' = Some(check_filter_convergence(reply))
    /\ IF check_filter_convergence(reply)
         THEN /\ w_result' = Some(TRUE)
              /\ w_pc' = "returned"
              /\ UNCHANGED << attempt, direction >>
         ELSE WiggleLoopHead(0, w_args[1].max_attempts)
    /\ UNCHANGED << w_args, last_twist, rechecks, checks, get_state_requests,
                    nonWiggleVars >>

\* lines 150-160: a non-zero /twist is answered; the direction is held on,
\* or its quarter of the duration is over
TwistReply ==
  \E held \in BOOLEAN :
    /\ w_pc = "twist"
    /\ last_twist' = "nonzero"
    /\ IF held THEN UNCHANGED << direction, w_pc >>
       ELSE IF direction < NumDirections
         THEN direction' = direction + 1 /\ UNCHANGED w_pc
         ELSE w_pc' = "stop" /\ UNCHANGED direction
    /\ UNCHANGED << w_args, attempt, w_result, c_reply, c_result, rechecks,
                    checks, get_state_requests, nonWiggleVars >>

\* lines 159 and 164: a /twist request raises, or the task is cancelled in
\* it; imu_wiggle has no handler and no finally
TwistRaises ==
  /\ w_pc \in {"twist", "stop"}
  /\ w_pc' = "raised"
  /\ UNCHANGED << w_args, attempt, direction, w_result, c_reply, c_result,
                  last_twist, rechecks, checks, get_state_requests,
                  nonWiggleVars >>

\* lines 163-183: the zero-velocity /twist is answered and the settle sleep
\* is over; the re-check is requested, or, without a check, True is returned
StopReply ==
  /\ w_pc = "stop"
  /\ last_twist' = "zero"
  /\ IF Checking(w_args[1])
       THEN /\ CheckCall
            /\ w_pc' = "recheck"
            /\ UNCHANGED w_result
       ELSE /\ w_result' = Some(TRUE)
            /\ w_pc' = "returned"
            /\ UNCHANGED << checks, get_state_requests, c_reply, c_result >>
  /\ UNCHANGED << w_args, attempt, direction, rechecks, nonWiggleVars >>

\* lines 172-187: the re-check returns
RecheckReply ==
  \E reply \in FilterReplies :
    /\ w_pc = "recheck"
    /\ c_reply' = Some(reply)
    /\ c_result' = Some(check_filter_convergence(reply))
    /\ rechecks' = Append(rechecks, check_filter_convergence(reply))
    /\ IF check_filter_convergence(reply)
         THEN /\ w_result' = Some(TRUE)
              /\ w_pc' = "returned"
              /\ UNCHANGED << attempt, direction >>
         ELSE WiggleLoopHead(attempt, w_args[1].max_attempts)
    /\ UNCHANGED << w_args, last_twist, checks, get_state_requests,
                    nonWiggleVars >>

NextWiggle ==
  \/ WiggleCall
  \/ InitialCheckReply
  \/ TwistReply
  \/ TwistRaises
  \/ StopReply
  \/ RecheckReply

\* one call of imu_wiggle
SpecWiggle == InitExec /\ [][NextWiggle]_vars

\* imu_wiggle has been left, by a return or by an exception
WiggleExited == w_pc \in {"returned", "raised"}

\* C16: every exit of imu_wiggle (return or exception) is preceded by a
\* zero-velocity twist sent after the last non-zero twist: the last twist
\* sent before the exit is the zero-velocity one
C16_ExitAfterZeroTwist == WiggleExited => last_twist = "zero"

\* C17: imu_wiggle drives at most max_attempts cycles; it returns true right
\* after the first cycle whose re-check reports converged, driving no further
\* cycle; it returns false when all max_attempts cycles ended not converged
C17_AttemptsBoundedFirstConvergedWins ==
  w_args # None =>
    LET args == w_args[1]
        n == Len(rechecks) IN
    /\ attempt <= args.max_attempts
    /\ n <= attempt
    /\ \A k \in 1 .. (n - 1) : ~rechecks[k]
    /\ (n > 0 /\ rechecks[n]) =>
          w_pc = "returned" /\ w_result = Some(TRUE) /\ n = attempt
    /\ (w_result = Some(TRUE) /\ Checking(args) /\ attempt > 0) =>
          n = attempt /\ rechecks[n]
    /\ w_result = Some(FALSE) =>
          /\ attempt = args.max_attempts
          /\ Checking(args) => n = args.max_attempts
          /\ \A k \in 1 .. n : ~rechecks[k]

\* the second of at least two allowed attempts converged: true is returned
\* after two cycles, the robot stopped
C17_Witness ==
  /\ w_pc = "returned"
  /\ w_result = Some(TRUE)
  /\ attempt = 2
  /\ rechecks = << FALSE, TRUE >>
  /\ last_twist = "zero"

\* C18: check_filter_convergence sends a single /get_state request and
\* returns true iff the reply arrived in time and reports has_converged; a
\* timeout or a transport error gives false and is not raised
C18_CheckTrueIffConvergedReply ==
  /\ get_state_requests = checks
  /\ c_result # None =>
        /\ c_reply # None
        /\ c_result[1] <=> c_reply[1] = "converged"
  /\ c_reply # None => c_result # None
  /\ w_pc = "raised" => (checks > 0 => c_result # None)

\* a check whose request timed out or raised returned false, and imu_wiggle
\* went on to its next attempt
C18_Witness ==
  /\ c_reply \in {Some("timeout"), Some("error")}
  /\ c_result = Some(FALSE)
  /\ w_pc = "twist"
  /\ attempt = 2

(***************************************************************************)
(* PathPlanner (src/navigation/path_planner.py): the row-end maneuver      *)
(* counter and the approach segment.  Lengths are in decimetres; a pose     *)
(* holds its coordinates as integers over the common denominator den, so    *)
(* the division by dist is exact.  A track is the pair of its start and the *)
(* final pose handed to TrackBuilder.create_ab_segment.                     *)
(***************************************************************************)
\* plan_row_end_maneuver is called on the planner
RowEndCall ==
  /\ Len(row_end_returns) < MaxPlanCalls
  /\ row_end_returns' =
       Append(row_end_returns, plan_row_end_maneuver(row_end_segment_index))
  /\ row_end_segment_index' = plan_row_end_index(row_end_segment_index)
  /\ UNCHANGED << approach, maneuvers, nonPlannerVars >>

\* coordinates, headings (degrees) and approach offsets of the calls
Coords == {0, 12, 30, 40, 50}
Headings == {0, 90}
OffsetsM == {0, 12, 50}

Pose(x, y, z, rotation, frame_b) ==
  [frame_a |-> "world", frame_b |-> frame_b,
   translation |-> << x, y, z >>, den |-> 1, rotation |-> rotation]

\* the squared planar distance of two poses with den = 1
Dist2(a, b) ==
  (b.translation[1] - a.translation[1]) * (b.translation[1] - a.translation[1])
  + (b.translation[2] - a.translation[2]) * (b.translation[2] - a.translation[2])

Abs(n) == IF n < 0 THEN 0 - n ELSE n

\* dx, dy whose hypotenuse is a whole number
WholeHypot(dx, dy) == \E r \in 0 .. (Abs(dx) + Abs(dy)) : r * r = dx * dx + dy * dy

\* np.hypot(dx, dy), for such dx, dy
Hypot(dx, dy) == CHOOSE r \in 0 .. (Abs(dx) + Abs(dy)) : r * r = dx * dx + dy * dy

\* the filter's current pose and the goal waypoint of a call
CurrentPoses == {Pose(x, y, 0, h, "robot") : x \in Coords, y \in Coords, h \in Headings}
GoalPoses == {Pose(x, y, 0, h, "hole") : x \in Coords, y \in Coords, h \in Headings}

\* lines 106-125: plan_segment
plan_segment(start, goal) == [start |-> start, final_pose |-> goal]

\* plan_approach_segment that measures the offset from the robot
plan_approach_segment_from_start(current, goal, offset_m) ==
  LET dx == goal.translation[1] - current.translation[1]
      dy == goal.translation[2] - current.translation[2]
      dist == Hypot(dx, dy)
  IN IF dist <= offset_m
       THEN plan_segment(current, goal)
       ELSE plan_segment(current,
              [frame_a |-> "world", frame_b |-> "approach",
               translation |-> << current.translation[1] * dist + dx * offset_m,
                                  current.translation[2] * dist + dy * offset_m,
                                  0 >>,
               den |-> dist,
               rotation |-> current.rotation])

\* lines 127-170: plan_approach_segment; scale = (dist - offset_m) / dist is
\* kept as the fraction it is, over the denominator dist
plan_approach_segment(current, goal, offset_m) ==
  LET dx == goal.translation[1] - current.translation[1]
      dy == goal.translation[2] - current.translation[2]
      dist == Hypot(dx, dy)
  IN IF dist <= offset_m
       THEN plan_segment(current, goal)
       ELSE plan_segment(current,
              [frame_a |-> "world", frame_b |-> "approach",
               translation |-> << current.translation[1] * dist + dx * (dist - offset_m),
                                  current.translation[2] * dist + dy * (dist - offset_m),
                                  0 >>,
               den |-> dist,
               rotation |-> current.rotation])

\* plan_approach_segment is called, once, with the robot at current
ApproachCall ==
  \E current \in CurrentPoses, goal \in GoalPoses, offset_m \in OffsetsM :
    /\ approach = None
    /\ WholeHypot(goal.translation[1] - current.translation[1],
                  goal.translation[2] - current.translation[2])
    /\ approach' = Some([current |-> current, goal |-> goal, offset_m |-> offset_m,
                         track |-> plan_approach_segment(current, goal, offset_m)])
    /\ UNCHANGED << row_end_segment_index, row_end_returns, maneuvers,
                    nonPlannerVars >>

NextPlanner ==
  \/ RowEndCall
  \/ ApproachCall

\* a fresh planner and any sequence of calls
SpecPlanner == InitExec /\ [][NextPlanner]_vars

\* the kinds of the four row-end segments, in order
RowEndKinds == << "straight", "turn", "straight", "turn" >>

\* C19: from a fresh planner the calls of plan_row_end_maneuver return, in
\* order, straight, turn, straight, turn (segments 1 to 4), then no segment
\* with the counter reset, then segment 1 again
C19_RowEndSequence ==
  /\ \A k \in 1 .. Len(row_end_returns) :
        LET r == (k - 1) % 5 IN
        IF r = 4 THEN row_end_returns[k] = None
        ELSE /\ row_end_returns[k] # None
             /\ row_end_returns[k][1].kind = RowEndKinds[r + 1]
             /\ row_end_returns[k][1].name \in
                  {n \in {"row_end_1", "row_end_2", "row_end_3", "row_end_4"} :
                     n = RowEndTrack(r + 1).name}
  /\ Len(row_end_returns) = 5 => row_end_segment_index = 1
  /\ Len(row_end_returns) = 4 => row_end_segment_index = 5

\* six calls were made: the fifth returned no segment, the sixth the first
\* straight segment again
C19_Witness ==
  /\ Len(row_end_returns) = 6
  /\ row_end_returns[5] = None
  /\ row_end_returns[6] = Some([name |-> "row_end_1", kind |-> "straight"])
  /\ row_end_segment_index = 2

\* C20: when the planar distance from the current pose to the goal is at
\* most offset_m the segment ends at the goal itself; otherwise it ends at
\* the point of the line from the current pose to the goal whose planar
\* distance to the goal is offset_m, with the robot's current heading
C20_ApproachStopsOffsetBeforeGoal ==
  approach # None =>
    LET c == approach[1].current
        g == approach[1].goal
        off == approach[1].offset_m
        f == approach[1].track.final_pose
        dx == g.translation[1] - c.translation[1]
        dy == g.translation[2] - c.translation[2]
        \* goal - f and f - current, times f.den
        gfx == g.translation[1] * f.den - f.translation[1]
        gfy == g.translation[2] * f.den - f.translation[2]
        fcx == f.translation[1] - c.translation[1] * f.den
        fcy == f.translation[2] - c.translation[2] * f.den
    IN /\ approach[1].track.start = c
       /\ IF Dist2(c, g) <= off * off
            THEN f = g
            ELSE /\ f.den > 0
                 /\ gfx * gfx + gfy * gfy = off * off * f.den * f.den
                 /\ fcx * dy - fcy * dx = 0
                 /\ fcx * gfx + fcy * gfy >= 0
                 /\ f.rotation = c.rotation

\* the robot at the origin heading 90, the goal 5 m ahead on the x axis with
\* another heading, the offset 1.2 m: the segment ends at x = 3.8 m
C20_Witness ==
  /\ approach # None
  /\ approach[1].current = Pose(0, 0, 0, 90, "robot")
  /\ approach[1].goal = Pose(50, 0, 0, 0, "hole")
  /\ approach[1].offset_m = 12
  /\ approach[1].track.final_pose.translation[1] = 38 * approach[1].track.final_pose.den
  /\ approach[1].track.final_pose.translation[2] = 0
  /\ approach[1].track.final_pose.rotation = 90

(***************************************************************************)
(* The state machine on its own: any caller makes any call of its public   *)
(* interface in any state.                                                 *)
(***************************************************************************)
\* the transition methods without parameters
SMMethods ==
  {"start", "initialize", "initialization_complete", "goal_set",
   "path_plotted", "approaching_stop", "stopped", "hole_detected",
   "coordinates_converted", "ready_for_module", "module_complete",
   "echelon_turn_complete", "segment_timeout_detected", "enter_recovery",
   "retry", "skip_hole", "abort", "emergency_stop", "start_return",
   "mission_complete", "shutdown", "waypoint_planned", "search_zone_reached",
   "hole_not_found", "path_refined", "track_complete", "track_failed",
   "tool_complete", "tool_failed", "skip", "all_waypoints_complete"}

\* a call that ends in transition(new_state)
SMTransitionTo(method, arg, new_state) ==
  /\ SetSM(transition(SM, new_state))
  /\ sm_last' = [method |-> method, arg |-> arg, target |-> new_state,
                  from |-> current_state,
                  logged |-> transition_log(SM, new_state)]
  /\ UNCHANGED << storeVars, plannerVars, execVars, wiggleVars, o_pc,
                  shutdown_requested, wp_index, segment_idx, setup_pc,
                  module_ready, converged_seen, module_shutdowns,
                  monitor_running, twinVars >>

\* transition(new_state) called directly
TransitionCall ==
  \E new_state \in NavState :
    SMTransitionTo("transition", << new_state >>, new_state)

\* one of the transition methods without parameters
MethodCall ==
  \E method \in SMMethods : SMTransitionTo(method, << >>, sm_target(method))

PatternUpdatedCall ==
  \E is_complete_arg \in BOOLEAN, is_echelon_end_arg \in BOOLEAN :
    SMTransitionTo("pattern_updated", << is_complete_arg, is_echelon_end_arg >>,
                   pattern_updated(is_complete_arg, is_echelon_end_arg))

\* is_terminal(): a query
IsTerminalCall ==
  /\ sm_last' = [method |-> "is_terminal", from |-> current_state,
                  val |-> is_terminal(SM)]
  /\ UNCHANGED << storeVars, plannerVars, execVars, wiggleVars, orchVars,
                  setup_pc, module_ready, converged_seen, module_shutdowns,
                  monitor_running, twinVars >>

NextSM ==
  \/ TransitionCall
  \/ MethodCall
  \/ PatternUpdatedCall
  \/ IsTerminalCall

SpecSM == InitExec /\ [][NextSM]_vars

\* the last call went through transition()
SMTransitioned == sm_last # NoCall /\ sm_last.method # "is_terminal"

\* C21: re-entering the same state is a no-op: transition(s) while
\* current_state = s leaves current_state and previous_state unchanged and logs
\* no transition; for s different from current_state it sets previous_state to
\* the old current_state and current_state to s
C21_ReenteringIsNoOp ==
  [][\A s \in NavState :
       (sm_last' # sm_last /\ sm_last'.method = "transition"
          /\ sm_last'.arg = << s >>) =>
         IF current_state = s
           THEN /\ UNCHANGED << current_state, previous_state >>
                /\ sm_last'.logged = None
           ELSE /\ previous_state' = current_state
                /\ current_state' = s]_vars

\* transition(PLANNING) was called in PLANNING, reached from IDLE, and
\* recorded nothing
C21_Witness ==
  /\ sm_last # NoCall
  /\ sm_last.method = "transition"
  /\ sm_last.arg = << "PLANNING" >>
  /\ sm_last.from = "PLANNING"
  /\ current_state = "PLANNING"
  /\ previous_state = "IDLE"

\* C22: pattern_updated(is_complete, is_echelon_end) moves the machine to
\* RETURNING when is_complete, to ECHELON_TURN when not is_complete and
\* is_echelon_end, to PLANNING otherwise; from RETURNING mission_complete
\* leads to COMPLETE and from ECHELON_TURN echelon_turn_complete to PLANNING
C22_PatternUpdatedBranches ==
  /\ (SMTransitioned /\ sm_last.method = "pattern_updated") =>
        current_state =
          (IF sm_last.arg[1] THEN "RETURNING"
           ELSE IF sm_last.arg[2] THEN "ECHELON_TURN" ELSE "PLANNING")
  /\ (SMTransitioned /\ sm_last.method = "mission_complete"
         /\ sm_last.from = "RETURNING") => current_state = "COMPLETE"
  /\ (SMTransitioned /\ sm_last.method = "echelon_turn_complete"
         /\ sm_last.from = "ECHELON_TURN") => current_state = "PLANNING"

\* pattern_updated(true, true) at the end of a row went to RETURNING
C22_Witness ==
  /\ SMTransitioned
  /\ sm_last.method = "pattern_updated"
  /\ sm_last.arg = << TRUE, TRUE >>
  /\ sm_last.from = "UPDATING_PATTERN"
  /\ current_state = "RETURNING"

\* C23: COMPLETE, FAILED and EMERGENCY_STOP are terminal: is_terminal() is
\* true exactly in these three states, and once the machine is in one of them
\* no later call changes current_state
C23_TerminalStatesAreFinal ==
  /\ [](sm_last # NoCall /\ sm_last.method = "is_terminal" =>
          (sm_last.val <=>
             sm_last.from \in {"COMPLETE", "FAILED", "EMERGENCY_STOP"}))
  /\ [][is_terminal(SM) =>
          UNCHANGED current_state]_vars

(***************************************************************************)
(* main() (src/main.py): setup(), then run().  The steps of setup() are    *)
(* the stretches of code between its awaits; the module and the filter     *)
(* answer with any value their signatures allow.                           *)
(***************************************************************************)
\* what the steps of setup() leave alone
SetupFrame ==
  UNCHANGED << storeVars, orchVars, plannerVars, execVars, wiggleVars,
               module_shutdowns, sm_last, twinVars >>

\* lines 58-123: the components are constructed, the monitor is started,
\* the module is looked up in the registry (a KeyError loads the NullModule)
\* and its initialize() is awaited
SetupComponents(registered) ==
  /\ setup_pc = "start"
  /\ monitor_running' = TRUE
  /\ setup_pc' = IF registered THEN "initialize" ELSE "null_initialize"
  /\ UNCHANGED << module_ready, converged_seen >>
  /\ SetupFrame

\* lines 123-129: initialize() returned; verify_ready() is awaited and its
\* value only chooses the line that is logged
VerifyReady(ready) ==
  /\ setup_pc = "initialize"
  /\ module_ready' = Some(ready)
  /\ setup_pc' = "check"
  /\ UNCHANGED << converged_seen, monitor_running >>
  /\ SetupFrame

\* lines 131-143: the NullModule's initialize() returned
NullModuleInitialized ==
  /\ setup_pc = "null_initialize"
  /\ setup_pc' = "check"
  /\ UNCHANGED << module_ready, converged_seen, monitor_running >>
  /\ SetupFrame

\* lines 146-149: check_filter_convergence returned
FilterCheck(reply) ==
  /\ setup_pc = "check"
  /\ converged_seen' = check_filter_convergence(reply)
  /\ setup_pc' = IF check_filter_convergence(reply) THEN "done" ELSE "wiggle"
  /\ UNCHANGED << module_ready, monitor_running >>
  /\ SetupFrame

\* lines 149-156: imu_wiggle returned; its value is dropped
WiggleReturned(result) ==
  /\ setup_pc = "wiggle"
  /\ converged_seen' = result
  /\ setup_pc' = "done"
  /\ UNCHANGED << module_ready, monitor_running >>
  /\ SetupFrame

\* an awaited call of setup() raises: main() never reaches run()
SetupRaises ==
  /\ setup_pc \in {"initialize", "null_initialize", "wiggle"}
  /\ setup_pc' = "failed"
  /\ UNCHANGED << module_ready, converged_seen, monitor_running >>
  /\ SetupFrame

\* XStemNavigator.__init__: nothing is set up
InitNavWith(rows) ==
  /\ OrchInit
  /\ PlannerInit
  /\ ExecInit
  /\ WiggleInit
  /\ PatternInit({"mission"}, rows)
  /\ setup_pc = "start"
  /\ module_ready = None
  /\ converged_seen = FALSE
  /\ module_shutdowns = 0
  /\ monitor_running = FALSE
  /\ sm_last = NoCall
  /\ TwinInit

InitNav == InitNavWith({TestLastRow})

NextNav ==
  \/ \E registered \in BOOLEAN : SetupComponents(registered)
  \/ \E ready \in BOOLEAN : VerifyReady(ready)
  \/ NullModuleInitialized
  \/ \E reply \in FilterReplies : FilterCheck(reply)
  \/ \E result \in BOOLEAN : WiggleReturned(result)
  \/ SetupRaises
  \/ NextOrch

\* one execution of main(): setup(), then run()
SpecNav == InitNav /\ [][NextNav]_vars

(***************************************************************************)
(* XStemNavigator.run as a function: the execution after it is fed one     *)
(* event (the return value of the call it awaits, an exception or a        *)
(* cancellation raised there, a signal), with the clock reading `now`.     *)
(* Two executions fed the same events read their own clocks.               *)
(***************************************************************************)
\* the events an execution of run() consumes
RunEvents ==
  {[kind |-> k] : k \in {"step", "raise", "cancel", "signal"}}
    \cup {[kind |-> "track", success |-> b] : b \in BOOLEAN}
    \cup {[kind |-> "detection", found |-> b] : b \in BOOLEAN}
    \cup {[kind |-> "module", result |-> r] : r \in ModuleResults}

\* the events that can reach an execution where it stands
RunAccepts(st, ev) ==
  CASE ev.kind = "signal" -> st.pc # "done" /\ ~st.shutdown_requested
    [] ev.kind \in {"raise", "cancel"} -> st.pc \in AwaitingPcs
    [] ev.kind = "step" ->
         st.pc \in {"run", "loop", "row_end_plan", "plan_approach",
                    "plan_final", "shutdown"}
    [] ev.kind = "track" ->
         st.pc \in {"row_end_exec", "exec_approach", "exec_final"}
    [] ev.kind = "detection" -> st.pc = "detect"
    [] ev.kind = "module" -> st.pc = "module"

\* lines 164-190
run_loop_head(st) ==
  IF st.shutdown_requested \/ is_terminal(st.sm)
    THEN [st EXCEPT !.pc = "shutdown"]
  ELSE IF get_next_hole(st.holes) = None
    THEN [st EXCEPT !.sm = sm_call(@, "all_waypoints_complete"),
                    !.pc = "shutdown"]
  ELSE LET index == get_next_hole(st.holes)[1].index IN
       [st EXCEPT
          !.wp_index = Some(index),
          !.holes = HolesMarkInProgress(@, index),
          !.current_hole_index =
             IF get_hole(st.holes, index) # None THEN Some(index) ELSE @,
          !.sm = sm_call(@, "waypoint_planned"),
          !.pc = IF is_echelon_end(index, last_row_index)
                   THEN "row_end_plan" ELSE "plan_approach",
          !.segment_idx = IF is_echelon_end(index, last_row_index)
                            THEN Some(1) ELSE @]

\* lines 193-194
run_after_row_end(st, now) ==
  [st EXCEPT !.holes = HolesMarkCompleted(@, st.wp_index[1], None, now),
             !.pc = "loop"]

\* lines 161-282 and 284-319
run_step(st, ev, now) ==
  CASE ev.kind = "signal" -> [st EXCEPT !.shutdown_requested = TRUE]
    [] ev.kind = "raise" ->
         [st EXCEPT !.sm = sm_call(@, "abort"), !.pc = "shutdown"]
    [] ev.kind = "cancel" -> [st EXCEPT !.pc = "shutdown"]
    [] ev.kind = "step" /\ st.pc = "run" ->
         [st EXCEPT !.sm = sm_call(@, "start"), !.pc = "loop"]
    [] ev.kind = "step" /\ st.pc = "loop" -> run_loop_head(st)
    [] ev.kind = "step" /\ st.pc = "row_end_plan" ->
         IF plan_row_end_maneuver(st.row_end_segment_index) = None
           THEN run_after_row_end(
                  [st EXCEPT !.row_end_segment_index = plan_row_end_index(@)],
                  now)
           ELSE [st EXCEPT !.row_end_segment_index = plan_row_end_index(@),
                           !.pc = "row_end_exec"]
    [] ev.kind = "track" /\ st.pc = "row_end_exec" ->
         IF ev.success /\ st.segment_idx[1] < 4
           THEN [st EXCEPT !.segment_idx = Some(@[1] + 1),
                           !.pc = "row_end_plan"]
           ELSE run_after_row_end(st, now)
    [] ev.kind = "step" /\ st.pc = "plan_approach" ->
         [st EXCEPT !.sm = sm_call(@, "search_zone_reached"),
                    !.pc = "exec_approach"]
    [] ev.kind = "track" /\ st.pc = "exec_approach" ->
         IF ev.success THEN [st EXCEPT !.pc = "detect"]
         ELSE [st EXCEPT !.sm = sm_call(@, "track_failed"), !.pc = "loop"]
    [] ev.kind = "detection" ->
         [st EXCEPT
            !.sm = sm_call(sm_call(@, IF ev.found THEN "hole_detected"
                                      ELSE "hole_not_found"), "path_refined"),
            !.pc = "plan_final"]
    [] ev.kind = "step" /\ st.pc = "plan_final" ->
         [st EXCEPT !.pc = "exec_final"]
    [] ev.kind = "track" /\ st.pc = "exec_final" ->
         IF ev.success
           THEN [st EXCEPT !.sm = sm_call(@, "track_complete"), !.pc = "module"]
           ELSE [st EXCEPT !.sm = sm_call(@, "track_failed"), !.pc = "loop"]
    [] ev.kind = "module" ->
         IF ev.result.success
           THEN [st EXCEPT
                   !.holes = HolesMarkCompleted(@, st.wp_index[1],
                                                ev.result.measurements, now),
                   !.sm = sm_call(@, "tool_complete"), !.pc = "loop"]
           ELSE [st EXCEPT
                   !.holes = HolesMarkFailed(@, st.wp_index[1],
                                             ErrorOrUnknown(ev.result.error)),
                   !.sm = sm_call(@, "tool_failed"), !.pc = "loop"]
    [] ev.kind = "step" /\ st.pc = "shutdown" ->
         [st EXCEPT !.shutdown_requested = TRUE, !.pc = "done"]

\* both executions are fed the event
TwinFeed(ev) ==
  \E nowA \in Instants, nowB \in Instants :
    /\ RunAccepts(runA, ev)
    /\ RunAccepts(runB, ev)
    /\ runA' = run_step(runA, ev, nowA)
    /\ runB' = run_step(runB, ev, nowB)
    /\ event' = ev
    /\ UNCHANGED << storeVars, orchVars, plannerVars, execVars, wiggleVars,
                    setup_pc, module_ready, converged_seen, module_shutdowns,
                    monitor_running, sm_last >>

NextTwin ==
  \/ \E ev \in {e \in RunEvents : e.kind = "step"} : TwinFeed(ev)
  \/ \E ev \in {e \in RunEvents : e.kind = "track"} : TwinFeed(ev)
  \/ \E ev \in {e \in RunEvents : e.kind = "detection"} : TwinFeed(ev)
  \/ \E ev \in {e \in RunEvents : e.kind = "module"} : TwinFeed(ev)
  \/ \E ev \in {e \in RunEvents : e.kind = "raise"} : TwinFeed(ev)
  \/ \E ev \in {e \in RunEvents : e.kind = "cancel"} : TwinFeed(ev)
  \/ \E ev \in {e \in RunEvents : e.kind = "signal"} : TwinFeed(ev)

SpecTwin == InitWith({"mission"}, 0 .. MaxLastRow) /\ [][NextTwin]_vars

\* the status of every hole
Statuses(hs) == [k \in DOMAIN hs |-> hs[k].status]

C25_FailedTrackIsRetried ==
  /\ [][(o_pc = "loop" /\ o_pc' # "loop" /\ ~shutdown_requested
           /\ ~is_terminal(SM)) =>
          \A k \in HolePositions :
             holes[k].status = "IN_PROGRESS" =>
               (wp_index' = Some(k - 1) /\ o_pc' # "shutdown")]_vars
  /\ [](current_state = "COMPLETE" => InProgressHoles = {})

\* C26: if the module's verify_ready() returned false during setup, the
\* main loop is never entered: run() is not started, no hole is marked
\* IN_PROGRESS and no track is executed
C26_NotReadyAbortsSetup ==
  module_ready = Some(FALSE) =>
    /\ o_pc = "run"
    /\ wp_index = None
    /\ InProgressHoles = {}

\* C27: on every exit path of run() (all holes processed, shutdown flag
\* seen, task cancellation, unexpected exception) module.shutdown() has been
\* called exactly once and the monitor is stopped when run() returns, never
\* more than once before; an exception leaves the state machine in FAILED
\* and it is still in FAILED while shutdown() runs
C27_ShutdownOnEveryExit ==
  /\ [](o_pc = "done" => (module_shutdowns = 1 /\ ~monitor_running))
  /\ [](module_shutdowns <= 1)
  /\ [][RunRaises => (current_state' = "FAILED" /\ o_pc' = "shutdown")]_vars
  /\ [][o_pc = "shutdown" => UNCHANGED current_state]_vars

\* run() returned after its task was cancelled in the middle of a cycle:
\* the module was shut down once and the monitor is stopped
C27_Witness ==
  /\ o_pc = "done"
  /\ current_state = "STOPPING"
  /\ InProgressHoles # {}
  /\ module_shutdowns = 1
  /\ ~monitor_running

\* C28: once the shutdown flag is set in the middle of a hole cycle, the
\* next step of run() leaves the cycle: it begins no further state
\* transition, track or module execution (an exception still records FAILED)
C28_FlagBreaksAtNextBoundary ==
  [][(shutdown_requested /\ o_pc \in AwaitingPcs /\ o_pc' # o_pc) =>
       /\ o_pc' \in {"loop", "shutdown"}
       /\ current_state' \in {current_state, "FAILED"}]_vars

\* C30: the main loop is entered (a hole has been chosen and marked
\* IN_PROGRESS, the first track is started) only after setup saw the filter
\* converged: by its convergence check or by an imu_wiggle that returned true
C30_LoopOnlyAfterConvergence ==
  (wp_index # None \/ InProgressHoles # {}) => converged_seen

(***************************************************************************)
(* The happy path: the module "none" is registered and is the NullModule,  *)
(* vision is disabled, no index of the pattern is an echelon end (a row    *)
(* is longer than the pattern), every track execution succeeds, and no     *)
(* signal, exception or cancellation arrives.  Every awaited call returns, *)
(* and the event loop resumes the task: weak fairness of the steps.        *)
(***************************************************************************)
NextHappy ==
  \/ SetupComponents(TRUE)
  \/ VerifyReady(TRUE)
  \/ \E reply \in FilterReplies : FilterCheck(reply)
  \/ \E result \in BOOLEAN : WiggleReturned(result)
  \/ RunStart
  \/ LoopHead
  \/ PlanApproach
  \/ ExecApproach(TRUE)
  \/ Detect(FALSE)
  \/ PlanFinal
  \/ ExecFinal(TRUE)
  \/ ModuleExecute(NullModuleResult)
  \/ Shutdown

SpecHappy ==
  /\ InitNavWith(NumHoles .. MaxLastRow)
  /\ [][NextHappy]_vars
  /\ WF_vars(NextHappy)

\* C29: on the happy path the run performs one cycle per hole in index
\* order, each ending in mark_completed, and terminates with every hole
\* COMPLETED (failed = skipped = pending = in_progress = 0) and the state
\* machine in COMPLETE
C29_HappyPath ==
  /\ [][(o_pc = "loop" /\ o_pc' \notin {"loop", "shutdown"}) =>
          /\ wp_index' = Some(Cardinality(IndicesWithStatus(holes, {"COMPLETED"})))
          /\ \A k \in HolePositions :
                holes[k].status =
                  (IF k - 1 < wp_index'[1] THEN "COMPLETED" ELSE "PENDING")]_vars
  /\ [][(o_pc = "module" /\ o_pc' # o_pc) =>
          (o_pc' = "loop" /\ holes'[wp_index[1] + 1].status = "COMPLETED")]_vars
  /\ <>[](/\ o_pc = "done"
          /\ current_state = "COMPLETE"
          /\ \A k \in HolePositions :
                holes[k].status = "COMPLETED" /\ holes[k].attempts = 1
          /\ IndicesWithStatus(holes, {"FAILED", "SKIPPED", "PENDING",
                                       "IN_PROGRESS"}) = {})

\* the run has returned with every hole completed, the last one later than
\* the first
C29_Witness ==
  /\ o_pc = "done"
  /\ current_state = "COMPLETE"
  /\ module_shutdowns = 1
  /\ \A k \in HolePositions : holes[k].status = "COMPLETED"
  /\ holes[1].timestamp_completed # holes[NumHoles].timestamp_completed

\* ---------------------------------------------------------------------
\* The orchestrator's state changes against the specified edges
\* ---------------------------------------------------------------------

\* the principal edges of the specification's state machine section; the two
\* "any state" edges are the pairs with SEGMENT_TIMEOUT and EMERGENCY_STOP as
\* their target
PrincipalEdges ==
  { << "IDLE", "INITIALIZING" >>, << "INITIALIZING", "PLANNING" >>,
    << "PLANNING", "PLOTTING_PATH" >>, << "PLOTTING_PATH", "FOLLOWING_PATH" >>,
    << "FOLLOWING_PATH", "STOPPING" >>, << "STOPPING", "DETECTING" >>,
    << "DETECTING", "CONVERTING" >>, << "CONVERTING", "PLOTTING_PATH" >>,
    << "DETECTING", "PLOTTING_PATH" >>, << "FOLLOWING_PATH", "MODULE_PHASE" >>,
    << "MODULE_PHASE", "UPDATING_PATTERN" >>,
    << "UPDATING_PATTERN", "RETURNING" >>, << "RETURNING", "COMPLETE" >>,
    << "UPDATING_PATTERN", "ECHELON_TURN" >>, << "ECHELON_TURN", "PLANNING" >>,
    << "UPDATING_PATTERN", "PLANNING" >>,
    << "SEGMENT_TIMEOUT", "RECOVERING" >>, << "RECOVERING", "PLANNING" >>,
    << "RECOVERING", "FAILED" >> }
  \cup { << from, to >> : from \in NavState,
                          to \in {"SEGMENT_TIMEOUT", "EMERGENCY_STOP"} }

\* the edge the state machine took last in this step, if it took one
LastEdgeTaken ==
  << previous_state', current_state' >> # << previous_state, current_state >>

\* C31: in every run of the orchestrator each change of the navigation
\* state is one of the principal edges of the specification, and a hole
\* cycle is left towards PLANNING, ECHELON_TURN or RETURNING before the next
\* hole starts (the next cycle's first edge starts at PLANNING).
C31_OnlyPrincipalEdges ==
  /\ [][LastEdgeTaken =>
          << previous_state', current_state' >> \in PrincipalEdges]_vars
  /\ [][(o_pc = "loop" /\ o_pc' \in {"plan_approach", "row_end_plan"}) =>
          previous_state' = "PLANNING"]_vars

\* C32: whenever execute_track returns false in a hole cycle (a timeout is
\* one of the causes, and run() sees only the boolean), the state machine
\* passes SEGMENT_TIMEOUT and is in RECOVERING before any further planning,
\* and RECOVERING is left only to PLANNING or to FAILED.
C32_TimeoutThenRecovering ==
  /\ [][(o_pc \in {"exec_approach", "exec_final"} /\ o_pc' = "loop") =>
          (previous_state' = "SEGMENT_TIMEOUT"
             /\ current_state' = "RECOVERING")]_vars
  /\ [][(current_state = "RECOVERING" /\ current_state' # "RECOVERING") =>
          current_state' \in {"PLANNING", "FAILED"}]_vars

\* the positions of the holes whose attempts counter this step changes
AttemptsChanged ==
  { k \in HolePositions : holes'[k].attempts # holes[k].attempts }

\* the state machine takes the edge PLANNING -> PLOTTING_PATH in this step
PlanningToPlotting ==
  /\ LastEdgeTaken
  /\ previous_state' = "PLANNING"
  /\ current_state' = "PLOTTING_PATH"

\* C33: the current hole's attempts counter is incremented exactly once per
\* PLANNING -> PLOTTING_PATH edge: every increment coincides with such an
\* edge, and every such edge coincides with exactly one increment, by one,
\* of the current hole.
C33_AttemptsPerPlanningEdge ==
  /\ [][AttemptsChanged # {} => PlanningToPlotting]_vars
  /\ [][PlanningToPlotting =>
          /\ wp_index' # None
          /\ AttemptsChanged = {wp_index'[1] + 1}
          /\ \A k \in AttemptsChanged :
                holes'[k].attempts = holes[k].attempts + 1]_vars

\* C35: every hole the orchestrator marks COMPLETED, echelon-end holes
\* included, is marked by the step in which module.execute returned success
\* for it, which run() reaches only after the final track to the hole
\* returned success.
C35_CompletedOnlyAfterModule ==
  [][\A k \in HolePositions :
        (holes[k].status # "COMPLETED" /\ holes'[k].status = "COMPLETED") =>
          (o_pc = "module" /\ wp_index = Some(k - 1))]_vars

\* C38: the state machine is COMPLETE only when the pattern is complete,
\* every hole being COMPLETED, FAILED or SKIPPED.
C38_CompleteMeansPatternComplete ==
  current_state = "COMPLETE" => is_complete(holes)

\* ---------------------------------------------------------------------
\* Row-end maneuvers within a mission
\* ---------------------------------------------------------------------

\* runs of the orchestrator over patterns of every row length, rows of one
\* hole included, where every hole is an echelon end
SpecOrchRows == InitWith({"mission"}, 0 .. MaxLastRow) /\ [][NextOrch]_vars

\* _execute_row_end_maneuver returns in this step and run() continues
ManeuverEnds == o_pc \in {"row_end_plan", "row_end_exec"} /\ o_pc' = "loop"

\* every row-end segment executed so far in the mission succeeded
AllSegmentsSucceeded(ms) ==
  \A m \in 1 .. Len(ms) : \A j \in 1 .. Len(ms[m]) : ms[m][j].success

\* the kinds of the segments a maneuver executed, in order
SegmentKinds(m) == [j \in 1 .. Len(m) |-> m[j].track.kind]

\* the maneuver before the one that starts or ends now was aborted by a
\* failed segment
LastManeuverAborted(ms) ==
  /\ Len(ms) >= 1
  /\ Len(ms[Len(ms)]) >= 1
  /\ ~ms[Len(ms)][Len(ms[Len(ms)])].success

\* a maneuver all of whose segments succeeded, in a mission where all did,
\* executed the four segments in order
FourSegmentsWhenAllSucceed ==
  [][(ManeuverEnds /\ AllSegmentsSucceeded(maneuvers')) =>
       SegmentKinds(maneuvers'[Len(maneuvers')]) = RowEndKinds]_vars

\* C34: at every echelon end of a mission, when every segment's track
\* execution succeeds, the orchestrator executes exactly the four row-end
\* segments in order (straight, turn, straight, turn), the state machine
\* being in ECHELON_TURN during the maneuver and passing to PLANNING after it.
C34_FourSegmentsAtEveryEchelonEnd ==
  /\ FourSegmentsWhenAllSucceed
  /\ [](o_pc \in {"row_end_plan", "row_end_exec"} =>
          current_state = "ECHELON_TURN")
  /\ [][ManeuverEnds =>
          (previous_state' = "ECHELON_TURN" /\ current_state' = "PLANNING")]_vars

\* C39: after a row-end maneuver that was aborted because one of its
\* segments failed, the planner's segment counter is back at 1, so that the
\* next maneuver's first planned segment is segment 1.
C39_AbortedManeuverResetsCounter ==
  /\ [][(ManeuverEnds /\ LastManeuverAborted(maneuvers')) =>
          row_end_segment_index' = 1]_vars
  /\ [][(o_pc = "loop" /\ o_pc' = "row_end_plan"
           /\ LastManeuverAborted(maneuvers)) =>
          plan_row_end_maneuver(row_end_segment_index') =
            Some(RowEndTrack(1))]_vars

\* ---------------------------------------------------------------------
\* Module failures and the end of the main loop
\* ---------------------------------------------------------------------

\* NavigationConfig.error_recovery_max_retries
error_recovery_max_retries == 3

\* the last cycle ended with the module failing on a hole that has attempts
\* left, and the loop is about to go on
FailedWithAttemptsLeft ==
  /\ o_pc = "loop"
  /\ ~shutdown_requested
  /\ wp_index # None
  /\ current_state = "RECOVERING"
  /\ get_hole(holes, wp_index[1]) # None
  /\ holes[wp_index[1] + 1].status = "FAILED"
  /\ holes[wp_index[1] + 1].attempts < error_recovery_max_retries

\* C36: when module.execute returns success = false for hole i, the hole is
\* marked FAILED with last_error the module's error text (a default text
\* when there is none) and the state machine enters RECOVERING; then the
\* recovery policy is applied: with attempts left, the loop's next step
\* retries the hole, marks it SKIPPED, or aborts the mission (FAILED).
C36_ModuleFailureRecovery ==
  /\ [][\A result \in ModuleResults :
          (~result.success /\ ModuleExecute(result)) =>
            (/\ holes'[wp_index[1] + 1].status = "FAILED"
             /\ holes'[wp_index[1] + 1].last_error =
                  Some(ErrorOrUnknown(result.error))
             /\ current_state' = "RECOVERING")]_vars
  /\ [][(FailedWithAttemptsLeft /\ o_pc' # "loop") =>
          \/ (wp_index' = wp_index
                /\ o_pc' \in {"plan_approach", "row_end_plan"})
          \/ holes'[wp_index[1] + 1].status = "SKIPPED"
          \/ current_state' = "FAILED"]_vars

\* runs of the orchestrator in which every awaited call returns and the
\* event loop resumes the task: some step of run() is taken whenever one is
\* possible
SpecOrchFair ==
  /\ InitWith({"mission"}, 0 .. MaxLastRow)
  /\ [][NextOrch]_vars
  /\ WF_vars(NextOrch)

\* a loop iteration starts a hole cycle in this step
CycleStarts == o_pc = "loop" /\ o_pc' \in {"plan_approach", "row_end_plan"}

\* C37: the main loop terminates: no step sets a hole back to PENDING, every
\* loop iteration takes the lowest PENDING hole out of PENDING, no hole gets
\* more than one iteration (so there are at most len(holes) of them), and
\* the loop is eventually left.
C37_MainLoopTerminates ==
  /\ [][\A k \in HolePositions :
          holes[k].status # "PENDING" => holes'[k].status # "PENDING"]_vars
  /\ [][CycleStarts =>
          /\ get_next_hole(holes) # None
          /\ wp_index' = Some(get_next_hole(holes)[1].index)
          /\ holes'[wp_index'[1] + 1].status # "PENDING"]_vars
  /\ [](\A k \in HolePositions : holes[k].attempts <= 1)
  /\ <>(o_pc \in {"shutdown", "done"})

\* the loop ran one iteration per hole and ended because no hole was PENDING
C37_Witness ==
  /\ o_pc = "done"
  /\ current_state = "COMPLETE"
  /\ \A k \in HolePositions : holes[k].attempts = 1

\* ---------------------------------------------------------------------
\* The planner's two tables: hole positions and navigation targets
\* ---------------------------------------------------------------------

\* load_waypoints_from_csv of a source of n points: the point of row r
\* (rows count from 0) is stored under the key r + 1
load_waypoints_from_csv(n) == [i \in 1 .. n |-> HolePose(i - 1)]

\* the fixed pose of the robot seen from the hole (robot_from_tool inverted)
hole_from_robot == [frame_a |-> "hole", frame_b |-> "robot"]

\* transform_holes_to_robot_targets: each hole pose composed with
\* hole_from_robot, under the key of the hole pose
transform_holes_to_robot_targets(poses) ==
  [idx \in DOMAIN poses |->
     [frame_a |-> poses[idx].frame_a, frame_b |-> hole_from_robot.frame_b,
      product |-> << poses[idx], hole_from_robot >>]]

\* PathPlanner.__init__: the two tables built from the pattern source
hole_poses == load_waypoints_from_csv(Len(holes))

waypoints == transform_holes_to_robot_targets(hole_poses)

\* PathPlanner.get_hole_position: dict.get
get_hole_position(index) ==
  IF index \in DOMAIN hole_poses THEN Some(hole_poses[index]) ELSE None

\* the navigation target built from the planned point a hole pose stands for
TargetOfPoint(pose) == transform_holes_to_robot_targets(<< pose >>)[1]

\* C40: for every hole index i the orchestrator processes, the navigation
\* target waypoints[i + 1] and the search centre get_hole_position(i) passed
\* to the detection refer to the same planned point of the pattern source.
C40_TargetAndSearchCentreAgree ==
  o_pc = "detect" =>
    /\ get_hole_position(wp_index[1]) # None
    /\ waypoints[wp_index[1] + 1] =
         TargetOfPoint(get_hole_position(wp_index[1])[1])

\* the part of C40 that the code satisfies: the navigation target is the
\* target of the processed hole's own point
TargetIsTheHolesPoint ==
  o_pc = "detect" =>
    waypoints[wp_index[1] + 1] = TargetOfPoint(holes[wp_index[1] + 1].position)

====
